---------------------------- MODULE Spec2Model ----------------------------
(* A model of the klickhouse native-protocol client core:                  *)
(*   - VarInt I/O                      (src/klickhouse/src/io.rs)          *)
(*   - length-prefixed strings         (src/klickhouse/src/io.rs)          *)
(*   - column codec                    (types/serialize/nullable.rs,      *)
(*                                      spec.md 4.4)                       *)
(*   - type grammar                    (spec.md 4.3)                       *)
(*   - compression envelope + reader   (src/klickhouse/src/compression.rs) *)
(*   - session multiplexer             (spec.md 4.7, 5, 7)                 *)
(*   - error annotation                (src/klickhouse/src/errors.rs)      *)
(*   - ClickhouseLock, migrations      (lock.rs, migrate.rs)               *)
(* Each part has its own variables and its own specification; a           *)
(* specification leaves the variables of the other parts at their initial *)
(* values.                                                                *)
EXTENDS Integers, Sequences, FiniteSets, TLC

VARIABLES
    \* ---- VarInt I/O ----
    vi_pc,        \* "write" | "read" | "done"
    vi_value,     \* the u64 handed to write_var_uint, as its set of 1-bits
    vi_wire,      \* the bytes of the stream: what was written, then a trailer
    vi_written,   \* how many bytes write_var_uint wrote
    vi_res,       \* what read_var_uint returned, and the cursor after it
    \* ---- length-prefixed strings ----
    st_pc,        \* "write" | "read" | "done", or "read_peer" | "done_peer"
    st_value,     \* the byte string handed to write_string
    st_wire,      \* the bytes of the stream read_string reads
    st_written,   \* how many bytes write_string wrote
    st_res,       \* what read_string returned, the cursor after it, what it allocated
    \* ---- column codec ----
    col_pc,       \* "serialize" | "deserialize" | "done"
    col_type,     \* the column's Type
    col_values,   \* the values handed to the serializer
    col_wire,     \* the bytes the serializer wrote, or its error
    col_res,      \* what the deserializer returned, and the cursor after it
    \* ---- type grammar ----
    ty_pc,        \* "print" | "parse" | "done"
    ty_type,      \* the Type printed
    ty_text,      \* the type expression handed to the parser
    ty_res,       \* what the parser returned
    \* ---- compression envelope: DecompressionReader over an inner reader ----
    fr_wire,      \* the bytes the inner reader yields, then end of file
    fr_cursor,    \* how many of them the inner reader has yielded
    inner,        \* DecompressionReader.inner is Some
    decompressed, \* DecompressionReader.decompressed
    position,     \* DecompressionReader.position
    block_reading_future, \* DecompressionReader.block_reading_future, or NoFuture
    poll_res,     \* what the last poll_read returned and put into the buffer
    read_err,     \* the error the ClickhouseRead call driving the polls returned
    blob_log,     \* ghost: the completed read_compressed_blob calls, in order
    corrupt,      \* ghost: what was done to the first frame of fr_wire
    \* ---- session multiplexer ----
    closed,       \* the session's closed flag
    io_failed,    \* ghost: a socket read or write has failed
    queue,        \* the submissions not yet taken up, oldest first
    current,      \* the query being served, or NoQuery
    phase,        \* "idle" | "serving" | "draining" (after Cancel)
    pending,      \* the Data block read and not yet sent into the channel
    chan,         \* per request: the blocks in its download channel
    chan_end,     \* per request: "open", or how the channel was closed
    caller,       \* per request: "new" | "held" | "dropped" | how it ended
    received,     \* per request: the blocks its caller has taken
    upstream,     \* the packets written to the socket, not yet read by the server
    downstream,   \* the packets the server wrote, not yet read by the multiplexer
    srv_cur,      \* the query the server is answering, or NoQuery
    srv_cancel,   \* the server has read a Cancel for it
    srv_log,      \* ghost: per query, the Data blocks the server sent
    started,      \* ghost: the queries in the order their Query packet was written
    finished,     \* ghost: the queries whose EndOfStream or Exception was read
    cancelled,    \* ghost: the queries a Cancel packet was written for
    submitted,    \* ghost: the queries in the order they joined the queue
    \* ---- error annotation ----
    err_orig,     \* ghost: the error as it was raised
    err_value,    \* the error after the calls of with_column_name
    err_names,    \* ghost: the names given to with_column_name, in order
    \* ---- ClickhouseLock and the migration execute ----
    lk_table,     \* the table _lock_refinery_exec exists at the server
    lk_queries,   \* the queries handed to execute
    lk,           \* per client: its call of execute, lock or try_lock
    \* ---- LZ4 blocks ----
    blk_kind,     \* "roundtrip" | "invalid" | "any_return"
    blk_pc,       \* "raw" | "data" | "done"
    blk_raw,      \* the bytes handed to the compressor
    blk_data,     \* the bytes handed to decompress_block
    blk_size,     \* the decompressed_size handed to decompress_block
    blk_cap,      \* ghost: the destination capacity passed to the decoder
    blk_ret,      \* ghost: what the decoder returned
    blk_res,      \* what decompress_block returned, and the length of its vector
    \* ---- BigDecimal conversions ----
    bd_pc,        \* "to_sql" | "from_sql" | "done"
    bd_x,         \* the BigDecimal handed to to_sql
    bd_hint,      \* the type hint handed to to_sql
    bd_value,     \* what to_sql returned
    bd_back       \* what from_sql returned for that value

viVars == <<vi_pc, vi_value, vi_wire, vi_written, vi_res>>

strVars == <<st_pc, st_value, st_wire, st_written, st_res>>

colVars == <<col_pc, col_type, col_values, col_wire, col_res>>

tyVars == <<ty_pc, ty_type, ty_text, ty_res>>

frVars == <<fr_wire, fr_cursor, inner, decompressed, position,
            block_reading_future, poll_res, read_err, blob_log, corrupt>>

muxVars == <<closed, io_failed, queue, current, phase, pending, chan, chan_end, caller,
             received, upstream, downstream, srv_cur, srv_cancel, srv_log, started, finished,
             cancelled, submitted>>

errVars == <<err_orig, err_value, err_names>>

\* the parts around the protocol core
lockVars == <<lk_table, lk_queries, lk>>

\* LZ4 blocks
blkVars == <<blk_kind, blk_pc, blk_raw, blk_data, blk_size, blk_cap, blk_ret, blk_res>>

\* BigDecimal conversions
bdVars == <<bd_pc, bd_x, bd_hint, bd_value, bd_back>>

extVars == <<blkVars, bdVars>>

\* the parts around the protocol core
clVars == <<errVars, lockVars, extVars>>

vars == <<viVars, strVars, colVars, tyVars, frVars, muxVars, clVars>>

\* ------------------------------------------------------------------------
\* Bytes and fixed-width integers
\* ------------------------------------------------------------------------

\* 2^k
Pow2(k) == 2 ^ k

\* the set of 1-bits of a byte
BitsOfByte(n) == {b \in 0..7 : (n \div Pow2(b)) % 2 = 1}

\* the byte whose 1-bits are the members of bits below 8 (an `as u8` cast)
RECURSIVE SumBits(_)
SumBits(bits) ==
    IF bits = {} THEN 0
    ELSE LET b == CHOOSE x \in bits : TRUE
         IN Pow2(b) + SumBits(bits \ {b})

ByteOfBits(bits) == SumBits({b \in bits : b < 8})

\* ------------------------------------------------------------------------
\* VarInt I/O (io.rs). A u64 is the set of its 1-bits, a subset of 0..63.
\* ------------------------------------------------------------------------

U64Width == 64

\* value & 0x7F
Low7(v) == {b \in v : b < 7}

\* value >> 7
Shr7(v) == {b - 7 : b \in {x \in v : x >= 7}}

\* (x as u64) << s, bits shifted out of the 64 are lost
Shl(v, s) == {b + s : b \in {x \in v : x + s < U64Width}}

\* `for i in 0..9u64` of read_var_uint
ReadMaxOctets == 9

\* `for _ in 0..9u64` of write_var_uint
WriteMaxOctets == 9

NoValue == [ok |-> FALSE, err |-> "none", value |-> {}, pos |-> 0]
IoEof(pos) == [ok |-> FALSE, err |-> "Io:UnexpectedEof", value |-> {}, pos |-> pos]

\* a continuation test that is off by one: `value >= 0x7F`
WriteContinuesOffByOne(value) == \E b \in value : b >= 7 \/ Low7(value) = 0..6

\* `if value > 0x7F { byte |= 0x80 }`
WriteContinues(value) == \E b \in value : b >= 7

RECURSIVE WriteLoop(_, _)
WriteLoop(value, i) ==
    IF i >= WriteMaxOctets THEN <<>>
    ELSE LET byte == Low7(value) \cup (IF WriteContinues(value) THEN {7} ELSE {})
             rest == Shr7(value)
         IN <<ByteOfBits(byte)>> \o (IF rest = {} THEN <<>> ELSE WriteLoop(rest, i + 1))

\* the bytes write_var_uint(value) appends to the stream
write_var_uint(value) == WriteLoop(value, 0)

RECURSIVE ReadLoop(_, _, _, _)
ReadLoop(data, pos, out, i) ==
    IF i >= ReadMaxOctets THEN [ok |-> TRUE, err |-> "none", value |-> out, pos |-> pos]
    ELSE IF pos >= Len(data) THEN IoEof(pos)
    ELSE LET octet == BitsOfByte(data[pos + 1])
             out2  == out \cup Shl(Low7(octet), 7 * i)
         IN IF 7 \notin octet
            THEN [ok |-> TRUE, err |-> "none", value |-> out2, pos |-> pos + 1]
            ELSE ReadLoop(data, pos + 1, out2, i + 1)

\* read_var_uint on a cursor at offset pos of data: the value and the new offset
read_var_uint(data, pos) == ReadLoop(data, pos, {}, 0)

\* The values tried: every run of consecutive 1-bits, every value with one or
\* two 1-bits, zero and u64::MAX.
VarUintInputs ==
    {lo..hi : lo \in 0..(U64Width - 1), hi \in 0..(U64Width - 1)}
        \cup {{a, b} : a \in 0..(U64Width - 1), b \in 0..(U64Width - 1)}

\* What may follow the varint in the stream.
MaxTrailer == 1
TrailerBytes == {0, 1, 128}
Trailers == UNION {[1..n -> TrailerBytes] : n \in 0..MaxTrailer}

ViInit ==
    /\ vi_pc = "write"
    /\ vi_value \in VarUintInputs
    /\ vi_wire = <<>>
    /\ vi_written = 0
    /\ vi_res = NoValue

ViIdle ==
    /\ vi_pc = "idle"
    /\ vi_value = {}
    /\ vi_wire = <<>>
    /\ vi_written = 0
    /\ vi_res = NoValue

WriteVarUint ==
    /\ vi_pc = "write"
    /\ \E t \in Trailers :
          LET bytes == write_var_uint(vi_value)
          IN /\ vi_wire' = bytes \o t
             /\ vi_written' = Len(bytes)
    /\ vi_pc' = "read"
    /\ UNCHANGED <<vi_value, vi_res>>
    /\ UNCHANGED <<strVars, colVars, tyVars, frVars, muxVars, clVars>>

ReadVarUint ==
    /\ vi_pc = "read"
    /\ vi_res' = read_var_uint(vi_wire, 0)
    /\ vi_pc' = "done"
    /\ UNCHANGED <<vi_value, vi_wire, vi_written>>
    /\ UNCHANGED <<strVars, colVars, tyVars, frVars, muxVars, clVars>>

\* ------------------------------------------------------------------------
\* Length-prefixed strings (io.rs). A byte string is kept as its leading
\* bytes and the number of zero bytes that follow them, so that strings of a
\* gibibyte are told apart by their length without being spelled out.
\* ------------------------------------------------------------------------

Bytes(lit, fill) == [lit |-> lit, fill |-> fill]
NoBytes == Bytes(<<>>, 0)

\* the length of a byte string
BLen(b) == Len(b.lit) + b.fill

\* the bytes of lit followed by the byte string b
BCat(lit, b) == Bytes(lit \o b.lit, b.fill)

\* the n bytes of b from offset pos on (pos + n <= BLen(b))
BSlice(b, pos, n) ==
    LET from == IF pos < Len(b.lit) THEN pos ELSE Len(b.lit)
        to   == IF pos + n < Len(b.lit) THEN pos + n ELSE Len(b.lit)
    IN Bytes(SubSeq(b.lit, from + 1, to), n - (to - from))

\* the first bytes of a stream, as far as a varint can reach into it
Peek(b) == b.lit \o [i \in 1..(IF b.fill < ReadMaxOctets THEN b.fill ELSE ReadMaxOctets) |-> 0]

\* protocol::MAX_STRING_SIZE, 1 GiB
MAX_STRING_SIZE == 1073741824

\* a u64 (its set of 1-bits) compared with, and converted to and from, a
\* number below 2^31
U64Gt(v, n) == (\E b \in v : b >= 31) \/ SumBits(v) > n
U64ToInt(v) == SumBits(v)
U64OfInt(n) == {b \in 0..30 : (n \div Pow2(b)) % 2 = 1}

StrResult(ok, err, value, pos, allocated) ==
    [ok |-> ok, err |-> err, value |-> value, pos |-> pos, allocated |-> allocated]
NoStrResult == StrResult(FALSE, "none", NoBytes, 0, 0)

\* a length test that also rejects MAX_STRING_SIZE itself
StringTooLargeInclusive(len) == U64Gt(len, MAX_STRING_SIZE - 1)

\* `len as usize > MAX_STRING_SIZE`
StringTooLarge(len) == U64Gt(len, MAX_STRING_SIZE)

\* `vec![0u8; len]` and `read_exact(&mut buf)`
ReadStringBuf(stream, pos, len) ==
    IF BLen(stream) - pos < len
    THEN StrResult(FALSE, "Io:UnexpectedEof", NoBytes, BLen(stream), len)
    ELSE StrResult(TRUE, "none", BSlice(stream, pos, len), pos + len, len)

\* read_string after its read_var_uint returned v
ReadStringLen(stream, v) ==
    IF ~v.ok THEN StrResult(FALSE, v.err, NoBytes, v.pos, 0)
    ELSE IF StringTooLarge(v.value)
         THEN StrResult(FALSE, "ProtocolError", NoBytes, v.pos, 0)
    ELSE IF v.value = {} THEN StrResult(TRUE, "none", NoBytes, v.pos, 0)
    ELSE ReadStringBuf(stream, v.pos, U64ToInt(v.value))

\* read_string on a cursor at the start of stream
read_string(stream) == ReadStringLen(stream, read_var_uint(Peek(stream), 0))

\* a write_string that writes nothing at all for the empty string
write_string_skips_empty(value) ==
    IF BLen(value) = 0 THEN NoBytes
    ELSE BCat(write_var_uint(U64OfInt(BLen(value))), value)

\* write_string: the length as a varint, then the bytes
write_string(value) == BCat(write_var_uint(U64OfInt(BLen(value))), value)

\* the strings spelled out: every string of at most MaxStrLen bytes
MaxStrLen == 2
StrAlphabet == {65, 255}
ShortStrings == {Bytes(s, 0) : s \in UNION {[1..n -> StrAlphabet] : n \in 0..MaxStrLen}}

\* lengths where the varint grows by a byte, and around MAX_STRING_SIZE
LongLengths == {127, 128, 300, 16383, 16384,
                MAX_STRING_SIZE - 1, MAX_STRING_SIZE, MAX_STRING_SIZE + 1}
LongStrings == {Bytes(<<>>, n) : n \in LongLengths} \cup {Bytes(<<65>>, n - 1) : n \in LongLengths}

StringInputs == ShortStrings \cup LongStrings

\* streams no write_string produced: a declared length, and more or fewer
\* payload bytes than it declares
DeclaredLengths == {{}, {0}, {1}, 0..29, {30}, {0, 30}, {31}, {32}, {63}, 0..63}
PayloadLengths == {0, 1, 2, MAX_STRING_SIZE - 1, MAX_STRING_SIZE, MAX_STRING_SIZE + 1}
RawStreams ==
    {BCat(write_var_uint(l), Bytes(<<>>, n)) : l \in DeclaredLengths, n \in PayloadLengths}
      \cup {Bytes(SubSeq(write_var_uint(l), 1, k), 0) : l \in {{30}, {63}}, k \in 0..1}

StrInit ==
    /\ st_res = NoStrResult
    /\ st_written = 0
    /\ \/ /\ st_pc = "write"
          /\ st_value \in StringInputs
          /\ st_wire = NoBytes
       \/ /\ st_pc = "read_peer"
          /\ st_value = NoBytes
          /\ st_wire \in RawStreams

StrIdle ==
    /\ st_pc = "idle"
    /\ st_value = NoBytes
    /\ st_wire = NoBytes
    /\ st_written = 0
    /\ st_res = NoStrResult

\* write_string into an empty buffer; other bytes may follow in the stream
WriteString ==
    /\ st_pc = "write"
    /\ LET out == write_string(st_value)
       IN /\ st_written' = BLen(out)
          /\ \E t \in Trailers :
                /\ (t # <<>> => out.fill = 0)
                /\ st_wire' = Bytes(out.lit \o t, out.fill)
    /\ st_pc' = "read"
    /\ UNCHANGED <<st_value, st_res>>
    /\ UNCHANGED <<viVars, colVars, tyVars, frVars, muxVars, clVars>>

\* read_string on what write_string wrote, or on a peer's stream
ReadString ==
    /\ st_pc \in {"read", "read_peer"}
    /\ st_res' = read_string(st_wire)
    /\ st_pc' = IF st_pc = "read" THEN "done" ELSE "done_peer"
    /\ UNCHANGED <<st_value, st_wire, st_written>>
    /\ UNCHANGED <<viVars, colVars, tyVars, frVars, muxVars, clVars>>

\* ------------------------------------------------------------------------
\* Compression envelope (compression.rs)
\* ------------------------------------------------------------------------

\* A u32 read off the wire is kept as its two 16-bit halves, so that values of
\* 2^31 and more stay exact.
U32OfLE(b) == [hi |-> b[3] + 256 * b[4], lo |-> b[1] + 256 * b[2]]

\* u32::to_le_bytes
U32ToLE(a) == <<a.lo % 256, a.lo \div 256, a.hi % 256, a.hi \div 256>>

\* the u32 is below 2^31, and then its value
U32Small(a) == a.hi < 32768
U32Val(a) == a.hi * 65536 + a.lo

\* a > n and a < n, for 0 <= n < 2^31
U32GtInt(a, n) == ~U32Small(a) \/ U32Val(a) > n
U32LtInt(a, n) == U32Small(a) /\ U32Val(a) < n

\* the little-endian bytes of 0 <= n < 2^31
LEOfInt(n) == <<n % 256, (n \div 256) % 256, (n \div 65536) % 256, n \div 16777216>>

\* MAX_COMPRESSION_SIZE, "1 GB"
MAX_COMPRESSION_SIZE == 1073741824

\* the 9 bytes of algorithm byte, compressed size and decompressed size
HeaderLen == 9

\* CompressionMethod::LZ4.byte()
Lz4Byte == 130

\* i32::MAX
I32Max == 2147483647

\* KlickhouseError, by variant and message
KErr(variant, detail) ==
    [variant |-> variant, detail |-> detail, cause |-> "none", cause_detail |-> "none"]
NoErr == KErr("none", "none")

\* std::io::Error::new(kind, source)
IoError(kind, src) == [kind |-> kind, src |-> src]
NoIoError == IoError("none", NoErr)

\* KlickhouseError::Io(#[from] std::io::Error): what `?` makes of an io::Error
FromIo(e) == [variant |-> "Io", detail |-> e.kind,
              cause |-> e.src.variant, cause_detail |-> e.src.detail]

\* the bytes at the positions i of s with (i - 1) % 15 = j - 1, each weighted
\* by the odd number 2i + 1, summed
RECURSIVE LaneSum(_, _, _)
LaneSum(s, j, i) ==
    IF i > Len(s) THEN 0
    ELSE (IF ((i - 1) % 15) + 1 = j THEN s[i] * (2 * i + 1) ELSE 0) + LaneSum(s, j, i + 1)

\* cityhash_rs::cityhash_102_128, the 128-bit result as 16 little-endian bytes.
\* The hash is a library's; what the envelope needs of it is that it depends on
\* every bit of its input and on the input's length, which this checksum of 15
\* byte lanes and a length byte does.
cityhash_102_128(s) ==
    [j \in 1..16 |-> IF j = 16 THEN Len(s) % 256 ELSE LaneSum(s, j, 1) % 256]

\* ---- LZ4 block format (liblz4) ----

Lz4Fail == [len |-> -1, out |-> <<>>]

\* a length nibble of 15 is extended by the following bytes, up to one below 255
RECURSIVE Lz4ExtLen(_, _, _)
Lz4ExtLen(src, ip, acc) ==
    IF ip >= Len(src) THEN [ok |-> FALSE, n |-> 0, ip |-> ip]
    ELSE IF src[ip + 1] = 255 THEN Lz4ExtLen(src, ip + 1, acc + 255)
    ELSE [ok |-> TRUE, n |-> acc + src[ip + 1], ip |-> ip + 1]

Lz4Len(src, ip, nibble) ==
    IF nibble = 15 THEN Lz4ExtLen(src, ip, 15) ELSE [ok |-> TRUE, n |-> nibble, ip |-> ip]

\* a copy that takes the n bytes as they are before it begins
Lz4CopyNoOverlap(out, offset, n) ==
    out \o [i \in 1..n |-> IF Len(out) - offset + i <= Len(out)
                           THEN out[Len(out) - offset + i] ELSE 0]

\* n bytes copied from offset bytes back, one at a time (the ranges may overlap)
RECURSIVE Lz4Copy(_, _, _)
Lz4Copy(out, offset, n) ==
    IF n = 0 THEN out ELSE Lz4Copy(Append(out, out[Len(out) - offset + 1]), offset, n - 1)

\* one sequence after the other: literals, then a match unless the input ends
\* with the literals. A match needs 8 bytes of input after the literals and
\* must end 5 bytes before the end of the destination (the decoder's
\* end-of-block restrictions).
RECURSIVE Lz4Sequences(_, _, _, _)
Lz4Sequences(src, ip, out, cap) ==
    IF ip >= Len(src) THEN Lz4Fail
    ELSE
      LET token  == src[ip + 1]
          lit    == Lz4Len(src, ip + 1, token \div 16)
          litEnd == lit.ip + lit.n
          out2   == out \o SubSeq(src, lit.ip + 1, litEnd)
      IN
        IF ~lit.ok \/ litEnd > Len(src) \/ Len(out) + lit.n > cap THEN Lz4Fail
        ELSE IF litEnd = Len(src) THEN [len |-> Len(out2), out |-> out2]
        ELSE IF litEnd > Len(src) - 8 \/ Len(out2) > cap - 12 THEN Lz4Fail
        ELSE
          LET offset == src[litEnd + 1] + 256 * src[litEnd + 2]
              mat    == Lz4Len(src, litEnd + 2, token % 16)
              mlen   == mat.n + 4
          IN
            IF ~mat.ok \/ offset = 0 \/ offset > Len(out2) \/ Len(out2) + mlen > cap - 5
            THEN Lz4Fail
            ELSE Lz4Sequences(src, mat.ip, Lz4Copy(out2, offset, mlen), cap)

\* LZ4_decompress_safe(src, dst, srcSize, dstCapacity): the number of bytes
\* decoded into dst, negative when the block is malformed or does not fit.
LZ4_decompress_safe(src, cap) ==
    IF cap < 0 \/ Len(src) = 0 THEN Lz4Fail
    ELSE IF cap = 0 THEN (IF src = <<0>> THEN [len |-> 0, out |-> <<>>] ELSE Lz4Fail)
    ELSE Lz4Sequences(src, 0, <<>>, cap)

\* `output.capacity() as i32` for a capacity of decompressed_size + 1
CapacityAsI32(usize) ==
    IF U32Small(usize) /\ U32Val(usize) < I32Max
    THEN U32Val(usize) + 1
    ELSE IF U32Small(usize) THEN -I32Max - 1
    ELSE (usize.hi - 32768) * 65536 + usize.lo - I32Max

\* a test of out_len that lets every length pass
ExceedsCapacityNever(out_len, usize) == FALSE

\* `out_len as usize > output.capacity()`, for out_len >= 0
ExceedsCapacity(out_len, usize) == U32Small(usize) /\ U32Val(usize) < out_len - 1

Result(ok, value, err) == [ok |-> ok, value |-> value, err |-> err]
NoResult == Result(FALSE, <<>>, NoErr)

\* the two tests of out_len: the CompressionError it ends with, if any
OutLenError(out_len, usize) ==
    IF out_len < 0 THEN "malformed compressed block"
    ELSE IF ExceedsCapacity(out_len, usize) THEN "exceeded buffer capacity"
    ELSE "none"

\* decompress_block after the decoder has returned r
DecompressChecked(r, usize) ==
    IF OutLenError(r.len, usize) # "none"
    THEN Result(FALSE, <<>>, KErr("CompressionError", OutLenError(r.len, usize)))
    ELSE Result(TRUE, SubSeq(r.out, 1, r.len), NoErr)

\* decompress_block(data, decompressed_size)
decompress_block(data, usize) ==
    IF Len(data) > I32Max
    THEN Result(FALSE, <<>>, KErr("CompressionError", "compressed input too large"))
    ELSE DecompressChecked(LZ4_decompress_safe(data, CapacityAsI32(usize)), usize)

\* ---- read_compressed_blob, as the future poll_read boxes ----
\* The future's state is its position (the await it is suspended at) and its
\* locals; alloc records that `vec![0u8; compressed_size]` has run, last the
\* await it passed last, start and stop the inner reader's cursor when the
\* call began and ended.

NoFuture == [pc |-> "none", last |-> "none", start |-> 0, stop |-> 0, checksum_hi |-> <<>>, checksum_lo |-> <<>>,
             type_byte |-> 0, csize |-> U32OfLE(<<0, 0, 0, 0>>), usize |-> U32OfLE(<<0, 0, 0, 0>>),
             alloc |-> FALSE, res |-> NoResult]

NewFuture(cursor) == [NoFuture EXCEPT !.pc = "checksum_hi", !.start = cursor]

\* the awaits of read_compressed_blob: two read_u64_le, read_u8, two
\* read_u32_le, read_exact
SegmentsPerBlob == 6

Avail(wire, cursor, n) == cursor + n <= Len(wire)
Take(wire, cursor, n) == SubSeq(wire, cursor + 1, cursor + n)

\* the future returns
Ready(f, cursor, res) == [fut |-> [f EXCEPT !.pc = "ready", !.res = res, !.stop = cursor],
                          cursor |-> cursor]
\* a read reached the end of the inner reader: read_exact fails, `?` returns
Eof(f, wire) == Ready(f, Len(wire), Result(FALSE, <<>>, FromIo(IoError("UnexpectedEof", NoErr))))
Goes(f, cursor) == [fut |-> f, cursor |-> cursor]

\* a size check without the lower bound
CsizeRejectedNoLowerBound(csize) ==
    IF U32GtInt(csize, MAX_COMPRESSION_SIZE) THEN "compressed payload too large"
    ELSE "none"

\* `if compressed_size > MAX_COMPRESSION_SIZE {..} else if compressed_size < 9 {..}`
CsizeRejected(csize) ==
    IF U32GtInt(csize, MAX_COMPRESSION_SIZE) THEN "compressed payload too large"
    ELSE IF U32LtInt(csize, HeaderLen) THEN "compressed payload too small"
    ELSE "none"

\* `compressed`, once the header has been copied in front of the body
ChecksumInput(f, body) == <<f.type_byte>> \o U32ToLE(f.csize) \o U32ToLE(f.usize) \o body

\* an end of read_compressed_blob that does not compare the checksum
BlobFinishUnchecked(f, body) == decompress_block(body, f.usize)

\* what follows the last await: checksum test and decompression
BlobFinish(f, body) ==
    IF cityhash_102_128(ChecksumInput(f, body)) # f.checksum_lo \o f.checksum_hi
    THEN Result(FALSE, <<>>, KErr("ProtocolError", "corrupt checksum"))
    ELSE decompress_block(body, f.usize)

\* the future runs from one await to the next
BlobSegment(f, wire, cursor, mode) ==
    CASE f.pc = "checksum_hi" ->
           IF ~Avail(wire, cursor, 8) THEN Eof(f, wire)
           ELSE Goes([f EXCEPT !.pc = "checksum_lo", !.checksum_hi = Take(wire, cursor, 8)],
                     cursor + 8)
      [] f.pc = "checksum_lo" ->
           IF ~Avail(wire, cursor, 8) THEN Eof(f, wire)
           ELSE Goes([f EXCEPT !.pc = "type", !.checksum_lo = Take(wire, cursor, 8)],
                     cursor + 8)
      [] f.pc = "type" ->
           IF ~Avail(wire, cursor, 1) THEN Eof(f, wire)
           ELSE LET g == [f EXCEPT !.type_byte = wire[cursor + 1]]
                IN IF g.type_byte # mode
                   THEN Ready(g, cursor + 1, Result(FALSE, <<>>,
                              KErr("ProtocolError", "unexpected compression algorithm identifier")))
                   ELSE Goes([g EXCEPT !.pc = "csize"], cursor + 1)
      [] f.pc = "csize" ->
           IF ~Avail(wire, cursor, 4) THEN Eof(f, wire)
           ELSE LET g == [f EXCEPT !.csize = U32OfLE(Take(wire, cursor, 4))]
                IN IF CsizeRejected(g.csize) # "none"
                   THEN Ready(g, cursor + 4, Result(FALSE, <<>>,
                              KErr("ProtocolError", CsizeRejected(g.csize))))
                   ELSE Goes([g EXCEPT !.pc = "usize"], cursor + 4)
      [] f.pc = "usize" ->
           IF ~Avail(wire, cursor, 4) THEN Eof(f, wire)
           ELSE Goes([f EXCEPT !.pc = "body", !.usize = U32OfLE(Take(wire, cursor, 4)),
                               !.alloc = TRUE],
                     cursor + 4)
      [] f.pc = "body" ->
           LET n == U32Val(f.csize) - HeaderLen
           IN IF ~Avail(wire, cursor, n) THEN Eof(f, wire)
              ELSE Ready(f, cursor + n, BlobFinish(f, Take(wire, cursor, n)))

\* the future is polled: it runs until it returns or an await finds the inner
\* reader not ready, which here is after `budget` more reads
RECURSIVE PollFuture(_, _, _, _, _)
PollStep(s, wire, mode, budget) == PollFuture(s.fut, wire, s.cursor, mode, budget)
PollFuture(f, wire, cursor, mode, budget) ==
    IF f.pc = "ready" \/ budget = 0 THEN [fut |-> f, cursor |-> cursor, budget |-> budget]
    ELSE PollStep(BlobSegment([f EXCEPT !.last = f.pc], wire, cursor, mode),
                  wire, mode, budget - 1)

\* ---- DecompressionReader ----

Reader(in, dec, pos, fut, cursor, log) ==
    [inner |-> in, decompressed |-> dec, position |-> pos, block_reading_future |-> fut,
     cursor |-> cursor, log |-> log]

Polled(kind, data, err) == [kind |-> kind, data |-> data, err |-> err]

\* run_decompression: the reader after it, the reads the inner reader has left
\* for this poll, and what it returned
Ran(r, budget, polled) == [r |-> r, budget |-> budget, polled |-> polled]

\* `std::io::Error::new(ErrorKind::UnexpectedEof, e)`
WrapBlobError(e) == IoError("UnexpectedEof", e)

\* a run_decompression that hands the inner reader back when the frame read
\* has failed
RunPolledRecovers(r, p) ==
    IF p.fut.pc # "ready"
    THEN Ran([r EXCEPT !.block_reading_future = p.fut, !.cursor = p.cursor], p.budget,
             Polled("Pending", <<>>, NoIoError))
    ELSE IF p.fut.res.ok
    THEN Ran([r EXCEPT !.block_reading_future = NoFuture, !.cursor = p.cursor,
                       !.decompressed = p.fut.res.value, !.inner = TRUE,
                       !.position = 0, !.log = Append(@, p.fut)],
             p.budget, Polled("Ok", <<>>, NoIoError))
    ELSE Ran([r EXCEPT !.block_reading_future = NoFuture, !.cursor = p.cursor,
                       !.inner = TRUE, !.log = Append(@, p.fut)],
             p.budget, Polled("Err", <<>>, WrapBlobError(p.fut.res.err)))

\* run_decompression once the future has been polled with outcome p
RunPolled(r, p) ==
    IF p.fut.pc # "ready"
    THEN Ran([r EXCEPT !.block_reading_future = p.fut, !.cursor = p.cursor], p.budget,
             Polled("Pending", <<>>, NoIoError))
    ELSE IF p.fut.res.ok
    THEN IF r.inner
         THEN \* assert!(self.inner.is_none())
              Ran([r EXCEPT !.block_reading_future = NoFuture, !.cursor = p.cursor,
                            !.decompressed = p.fut.res.value, !.log = Append(@, p.fut)],
                  p.budget, Polled("Panic", <<>>, NoIoError))
         ELSE Ran([r EXCEPT !.block_reading_future = NoFuture, !.cursor = p.cursor,
                            !.decompressed = p.fut.res.value, !.inner = TRUE,
                            !.position = 0, !.log = Append(@, p.fut)],
                  p.budget, Polled("Ok", <<>>, NoIoError))
    ELSE Ran([r EXCEPT !.block_reading_future = NoFuture, !.cursor = p.cursor,
                       !.log = Append(@, p.fut)],
             p.budget, Polled("Err", <<>>, WrapBlobError(p.fut.res.err)))

run_decompression(r, wire, mode, budget) ==
    IF r.block_reading_future.pc = "none" THEN Ran(r, budget, Polled("Ok", <<>>, NoIoError))
    ELSE RunPolled(r, PollFuture(r.block_reading_future, wire, r.cursor, mode, budget))

Min(a, b) == IF a <= b THEN a ELSE b

\* a fill that reads one frame and copies whatever it holds
FillLoopOnce(r, wire, mode, budget, remaining) ==
    LET d == IF r.position >= Len(r.decompressed) /\ r.inner
             THEN run_decompression([r EXCEPT !.inner = FALSE,
                                              !.block_reading_future = NewFuture(r.cursor)],
                                    wire, mode, budget)
             ELSE Ran(r, budget, Polled("Ok", <<>>, NoIoError))
        length == Min(Len(d.r.decompressed) - d.r.position, remaining)
    IN IF d.polled.kind # "Ok" THEN d
       ELSE Ran([d.r EXCEPT !.position = @ + length], d.budget,
                Polled("Ok", SubSeq(d.r.decompressed, d.r.position + 1, d.r.position + length),
                       NoIoError))

\* the `while self.position >= self.decompressed.len()` loop and the copy
\* into the buffer that follows it
RECURSIVE FillLoop(_, _, _, _, _)
FillNext(d, wire, mode, remaining) ==
    IF d.polled.kind = "Ok" THEN FillLoop(d.r, wire, mode, d.budget, remaining) ELSE d

FillLoop(r, wire, mode, budget, remaining) ==
    IF r.position >= Len(r.decompressed)
    THEN IF ~r.inner
         THEN Ran(r, budget, Polled("Err", <<>>,
                  IoError("Other", KErr("message", "decompression reader in invalid state"))))
         ELSE FillNext(run_decompression([r EXCEPT !.inner = FALSE,
                                                   !.block_reading_future = NewFuture(r.cursor)],
                                         wire, mode, budget),
                       wire, mode, remaining)
    ELSE LET length == Min(Len(r.decompressed) - r.position, remaining)
         IN Ran([r EXCEPT !.position = @ + length], budget,
                Polled("Ok", SubSeq(r.decompressed, r.position + 1, r.position + length),
                       NoIoError))

\* poll_read after its first run_decompression has returned d
PollAfterRun(d, wire, mode, remaining) ==
    IF d.polled.kind # "Ok" THEN d
    ELSE IF ~d.r.inner
    THEN Ran(d.r, d.budget, Polled("Err", <<>>,
             IoError("UnexpectedEof", KErr("message", "read after EOF"))))
    ELSE FillLoop(d.r, wire, mode, d.budget, remaining)

\* poll_read with a buffer of the given capacity and remaining room
poll_read(r, wire, mode, capacity, remaining, budget) ==
    IF capacity = 0 THEN Ran(r, budget, Polled("Ok", <<>>, NoIoError))
    ELSE PollAfterRun(run_decompression(r, wire, mode, budget), wire, mode, remaining)

\* ---- the inner reader's bytes ----

\* A framed envelope as the peer writes it: checksum (high half first),
\* algorithm byte, compressed size (header and body), decompressed size, body.
Framed(sum, payload) == SubSeq(sum, 9, 16) \o SubSeq(sum, 1, 8) \o payload
Enveloped(payload) == Framed(cityhash_102_128(payload), payload)
ServerFrame(body, usize) ==
    Enveloped(<<Lz4Byte>> \o LEOfInt(HeaderLen + Len(body)) \o LEOfInt(usize) \o body)

\* the field of the envelope its idx-th byte belongs to
FieldOf(idx) ==
    IF idx <= 16 THEN "checksum"
    ELSE IF idx = 17 THEN "algo"
    ELSE IF idx <= 21 THEN "csize"
    ELSE IF idx <= 25 THEN "usize"
    ELSE "body"

\* bit `bit` of byte idx inverted
FlipBit(frame, idx, bit) ==
    [frame EXCEPT ![idx] = IF bit \in BitsOfByte(@) THEN @ - Pow2(bit) ELSE @ + Pow2(bit)]

\* the compressed-size field overwritten
SetCsize(frame, bytes) == SubSeq(frame, 1, 17) \o bytes \o SubSeq(frame, 22, Len(frame))

\* LZ4 blocks: no input; no literal; "A"; "AB"; three literals announced and
\* one present
Bodies == {<<>>, <<0>>, <<16, 65>>, <<32, 65, 66>>, <<48, 65>>}

\* the decompressed sizes the peer declares
MaxDeclared == 3

\* compressed sizes around the limits: 8, 9, 2^30, 2^30 + 1, 2^31, 2^32 - 1
CsizeCases == {<<8, 0, 0, 0>>, <<9, 0, 0, 0>>, <<0, 0, 0, 64>>, <<1, 0, 0, 64>>,
               <<0, 0, 0, 128>>, <<255, 255, 255, 255>>}

NoCorruption == [kind |-> "none", field |-> "none", idx |-> 0, bit |-> 0, bytes |-> <<>>]

Corruptions(frame) ==
    {NoCorruption}
      \cup {[kind |-> "flip", field |-> FieldOf(i), idx |-> i, bit |-> b, bytes |-> <<>>] :
               i \in 1..Len(frame), b \in 0..7}
      \cup {[kind |-> "csize", field |-> "csize", idx |-> 18, bit |-> 0, bytes |-> c] :
               c \in CsizeCases}

Corrupted(frame, c) ==
    CASE c.kind = "none"  -> frame
      [] c.kind = "flip"  -> FlipBit(frame, c.idx, c.bit)
      [] c.kind = "csize" -> SetCsize(frame, c.bytes)

\* the frames on the wire
MaxFrames == 2

\* the frames that may follow the first: "A", and a block of no bytes
TailFrames == {ServerFrame(<<16, 65>>, 1), ServerFrame(<<0>>, 0)}

RECURSIVE Concat(_)
Concat(ss) == IF ss = <<>> THEN <<>> ELSE Head(ss) \o Concat(Tail(ss))

Tails == {Concat(t) : t \in UNION {[1..n -> TailFrames] : n \in 0..(MaxFrames - 1)}}

\* the buffers poll_read is called with: capacity and remaining room
MaxBuf == 1
BufShapes == {<<c, r>> : c \in 0..MaxBuf, r \in 0..MaxBuf} \cap {s \in (0..MaxBuf) \X (0..MaxBuf) : s[2] <= s[1]}

\* the reads the inner reader completes before it is not ready: none, one, or
\* all that the wire holds
Budgets == {0, 1, SegmentsPerBlob * MaxFrames + 1}

NoPoll == Polled("none", <<>>, NoIoError)

\* the frames a bit is inverted in or whose size field is overwritten: blocks
\* that decode, with the decoded length declared
SoundFrames ==
    {<<b, LZ4_decompress_safe(b, I32Max).len>> :
        b \in {x \in Bodies : LZ4_decompress_safe(x, I32Max).len >= 0}}

\* the wires: a frame as the peer wrote it, or a sound one corrupted, and
\* what follows it
Wires ==
    {[wire |-> ServerFrame(b, u) \o t, corrupt |-> NoCorruption] :
        b \in Bodies, u \in 0..MaxDeclared, t \in Tails}
      \cup UNION {
          {[wire |-> Corrupted(ServerFrame(f[1], f[2]), c) \o t, corrupt |-> c] :
              c \in Corruptions(ServerFrame(f[1], f[2])) \ {NoCorruption}, t \in Tails} :
          f \in SoundFrames}

\* DecompressionReader::new over an inner reader holding fr_wire
FrInit ==
    /\ \E w \in Wires : fr_wire = w.wire /\ corrupt = w.corrupt
    /\ fr_cursor = 0
    /\ inner = TRUE
    /\ decompressed = <<>>
    /\ position = 0
    /\ block_reading_future = NoFuture
    /\ poll_res = NoPoll
    /\ read_err = NoErr
    /\ blob_log = <<>>

FrIdle ==
    /\ fr_wire = <<>>
    /\ corrupt = NoCorruption
    /\ fr_cursor = 0
    /\ inner = TRUE
    /\ decompressed = <<>>
    /\ position = 0
    /\ block_reading_future = NoFuture
    /\ poll_res = NoPoll
    /\ read_err = NoErr
    /\ blob_log = <<>>

\* `self.read_exact(..).await?` of read_var_uint and read_string on the
\* reader: a poll that fails ends the call with the io::Error converted
ReadFailure(polled) == IF polled.kind = "Err" THEN FromIo(polled.err) ELSE NoErr

\* AsyncRead::poll_read is called once, by a read_exact of the block decoder
PollRead ==
    /\ poll_res.kind # "Panic"
    /\ \E shape \in BufShapes, budget \in Budgets :
         \E d \in {poll_read(Reader(inner, decompressed, position, block_reading_future,
                                    fr_cursor, blob_log),
                             fr_wire, Lz4Byte, shape[1], shape[2], budget)} :
            /\ inner' = d.r.inner
            /\ decompressed' = d.r.decompressed
            /\ position' = d.r.position
            /\ block_reading_future' = d.r.block_reading_future
            /\ fr_cursor' = d.r.cursor
            /\ blob_log' = d.r.log
            /\ poll_res' = d.polled
            /\ read_err' = ReadFailure(d.polled)
    /\ UNCHANGED <<fr_wire, corrupt>>
    /\ UNCHANGED <<viVars, strVars, colVars, tyVars, muxVars, clVars>>

\* ------------------------------------------------------------------------
\* Session multiplexer (spec.md 4.6, 4.7, 5, 7)
\* ------------------------------------------------------------------------

\* the queries the callers submit on the one session, numbered in the order
\* of their submission
NumQueries == 2
Queries == 1..NumQueries

\* the Data blocks the server sends for one query, at most
MaxBlocks == 2

\* the capacity of a request's download channel (block_channel_size)
ChanCap == 1

\* the packets the socket holds between server and multiplexer, at most
WireCap == 2

NoQuery == 0
NoPacket == [type |-> "none", q |-> 0, n |-> 0]
Packet(type, q, n) == [type |-> type, q |-> q, n |-> n]

\* the elements of s
Range(s) == {s[i] : i \in 1..Len(s)}

\* Session::is_closed
is_closed == closed

\* the queries whose Query packet is written and whose EndOfStream or
\* Exception the multiplexer has not read
InFlight == Range(started) \ finished

\* ---- callers ----

\* a caller submits a query: on a closed session the submission fails at once
\* with a connection error, otherwise it joins the submission queue
Submit(q) ==
    /\ caller[q] = "new"
    /\ \A r \in 1..(q - 1) : caller[r] # "new"
    /\ IF is_closed
       THEN /\ caller' = [caller EXCEPT ![q] = "ConnectionError"]
            /\ UNCHANGED <<queue, submitted>>
       ELSE /\ caller' = [caller EXCEPT ![q] = "held"]
            /\ queue' = Append(queue, q)
            /\ submitted' = Append(submitted, q)
    /\ UNCHANGED <<closed, io_failed, current, phase, pending, chan, chan_end, received,
                   upstream, downstream, srv_cur, srv_cancel, srv_log, started, finished,
                   cancelled>>
    /\ UNCHANGED <<viVars, strVars, colVars, tyVars, frVars, clVars>>

\* a caller takes the next element of its download channel: a block, or when
\* the channel is empty and closed, its end (clean, or the final error)
Consume(q) ==
    /\ caller[q] = "held"
    /\ IF chan[q] # <<>>
       THEN /\ received' = [received EXCEPT ![q] = Append(@, Head(chan[q]))]
            /\ chan' = [chan EXCEPT ![q] = Tail(@)]
            /\ UNCHANGED caller
       ELSE /\ chan_end[q] # "open"
            /\ caller' = [caller EXCEPT ![q] = chan_end[q]]
            /\ UNCHANGED <<received, chan>>
    /\ UNCHANGED <<closed, io_failed, queue, current, phase, pending, chan_end,
                   upstream, downstream, srv_cur, srv_cancel, srv_log, started, finished,
                   cancelled, submitted>>
    /\ UNCHANGED <<viVars, strVars, colVars, tyVars, frVars, clVars>>

\* a caller drops its request handle; what the channel still held is gone
DropHandle(q) ==
    /\ caller[q] = "held"
    /\ caller' = [caller EXCEPT ![q] = "dropped"]
    /\ chan' = [chan EXCEPT ![q] = <<>>]
    /\ UNCHANGED <<closed, io_failed, queue, current, phase, pending, chan_end, received,
                   upstream, downstream, srv_cur, srv_cancel, srv_log, started, finished,
                   cancelled, submitted>>
    /\ UNCHANGED <<viVars, strVars, colVars, tyVars, frVars, clVars>>

\* ---- the multiplexer task ----

\* a multiplexer that pipelines: it takes a submission whatever it is serving
MayStartPipelined == TRUE

\* the multiplexer may take the next submission: no query is being served
MayStart == current = NoQuery

\* the oldest submission is taken and its Query packet written
MuxStart ==
    /\ ~closed
    /\ MayStart
    /\ queue # <<>>
    /\ current' = Head(queue)
    /\ queue' = Tail(queue)
    /\ phase' = "serving"
    /\ upstream' = Append(upstream, Packet("Query", Head(queue), 0))
    /\ started' = Append(started, Head(queue))
    /\ UNCHANGED <<closed, io_failed, pending, chan, chan_end, caller, received, downstream,
                   srv_cur, srv_cancel, srv_log, finished, cancelled, submitted>>
    /\ UNCHANGED <<viVars, strVars, colVars, tyVars, frVars, clVars>>

\* the request whose channel a packet read from the socket goes to
RouteOf(p) == current

\* a multiplexer that reads on while it holds a block it has not sent
MayReadWhileBlocked == TRUE

\* the multiplexer may read the socket: it is not blocked on a channel send
MayRead == pending = NoPacket

\* the next packet is read off the socket and dispatched: a Data block is to
\* be sent into the download channel of the query being served (or is
\* discarded once that query is cancelled), a control packet is ignored,
\* EndOfStream and Exception end the query
MuxRead ==
    /\ ~closed
    /\ current # NoQuery
    /\ MayRead
    /\ ~(phase = "serving" /\ caller[current] = "dropped")
    /\ downstream # <<>>
    /\ downstream' = Tail(downstream)
    /\ LET p == Head(downstream)
       IN CASE p.type = "Data" ->
                 /\ pending' = IF phase = "serving" THEN p ELSE NoPacket
                 /\ UNCHANGED <<current, phase, chan_end, finished>>
            [] p.type = "Progress" ->
                 UNCHANGED <<pending, current, phase, chan_end, finished>>
            [] p.type \in {"EndOfStream", "Exception"} ->
                 /\ chan_end' = [chan_end EXCEPT ![current] =
                                    IF p.type = "EndOfStream" THEN "eos" ELSE "ServerException"]
                 /\ finished' = finished \cup {current}
                 /\ current' = NoQuery
                 /\ phase' = "idle"
                 /\ UNCHANGED pending
    /\ UNCHANGED <<closed, io_failed, queue, chan, caller, received, upstream,
                   srv_cur, srv_cancel, srv_log, started, cancelled, submitted>>
    /\ UNCHANGED <<viVars, strVars, colVars, tyVars, frVars, clVars>>

\* an unbounded channel: there is always room
MaySendUnbounded == TRUE

\* the channel has room for the block the multiplexer holds
MaySend == Len(chan[RouteOf(pending)]) < ChanCap

\* the block read last is sent into the download channel
MuxSend ==
    /\ ~closed
    /\ pending # NoPacket
    /\ caller[current] = "held"
    /\ MaySend
    /\ chan' = [chan EXCEPT ![RouteOf(pending)] = Append(@, pending)]
    /\ pending' = NoPacket
    /\ UNCHANGED <<closed, io_failed, queue, current, phase, chan_end, caller, received,
                   upstream, downstream, srv_cur, srv_cancel, srv_log, started, finished,
                   cancelled, submitted>>
    /\ UNCHANGED <<viVars, strVars, colVars, tyVars, frVars, clVars>>

\* a multiplexer that writes Cancel and abandons the response undrained
MuxCancelAbandons ==
    /\ ~closed
    /\ current # NoQuery
    /\ phase = "serving"
    /\ caller[current] = "dropped"
    /\ upstream' = Append(upstream, Packet("Cancel", current, 0))
    /\ phase' = "idle"
    /\ current' = NoQuery
    /\ pending' = NoPacket
    /\ cancelled' = cancelled \cup {current}
    /\ UNCHANGED <<closed, io_failed, queue, chan, chan_end, caller, received,
                   downstream, srv_cur, srv_cancel, srv_log, started, finished, submitted>>
    /\ UNCHANGED <<viVars, strVars, colVars, tyVars, frVars, clVars>>

\* the handle of the query being served is gone: a Cancel packet is written
\* and the multiplexer goes on reading, discarding
MuxCancel ==
    /\ ~closed
    /\ current # NoQuery
    /\ phase = "serving"
    /\ caller[current] = "dropped"
    /\ upstream' = Append(upstream, Packet("Cancel", current, 0))
    /\ phase' = "draining"
    /\ pending' = NoPacket
    /\ cancelled' = cancelled \cup {current}
    /\ UNCHANGED <<closed, io_failed, queue, current, chan, chan_end, caller, received,
                   downstream, srv_cur, srv_cancel, srv_log, started, finished, submitted>>
    /\ UNCHANGED <<viVars, strVars, colVars, tyVars, frVars, clVars>>

\* a tear-down that closes the session and leaves the request channels open
IOErrorKeepsChannels ==
    /\ ~closed
    /\ closed' = TRUE
    /\ io_failed' = TRUE
    /\ queue' = <<>>
    /\ current' = NoQuery
    /\ phase' = "idle"
    /\ pending' = NoPacket
    /\ upstream' = <<>>
    /\ downstream' = <<>>
    /\ srv_cur' = NoQuery
    /\ srv_cancel' = FALSE
    /\ UNCHANGED <<chan, chan_end, caller, received, srv_log, started, finished, cancelled,
                   submitted>>
    /\ UNCHANGED <<viVars, strVars, colVars, tyVars, frVars, clVars>>

\* a read or a write of the socket fails: the session is closed for good and
\* the channel of every request submitted and not ended is closed with a
\* connection error
IOError ==
    /\ ~closed
    /\ closed' = TRUE
    /\ io_failed' = TRUE
    /\ chan_end' = [q \in Queries |->
                      IF chan_end[q] = "open" /\ (q = current \/ q \in Range(queue))
                      THEN "ConnectionError" ELSE chan_end[q]]
    /\ queue' = <<>>
    /\ current' = NoQuery
    /\ phase' = "idle"
    /\ pending' = NoPacket
    /\ upstream' = <<>>
    /\ downstream' = <<>>
    /\ srv_cur' = NoQuery
    /\ srv_cancel' = FALSE
    /\ UNCHANGED <<chan, caller, received, srv_log, started, finished, cancelled, submitted>>
    /\ UNCHANGED <<viVars, strVars, colVars, tyVars, frVars, clVars>>

\* ---- the server ----

\* the server reads the next packet of the client: a Query starts a response,
\* a Cancel for the query it is answering makes it finish
ServerRecv ==
    /\ ~closed
    /\ upstream # <<>>
    /\ upstream' = Tail(upstream)
    /\ LET p == Head(upstream)
       IN IF p.type = "Query"
          THEN /\ srv_cur = NoQuery
               /\ srv_cur' = p.q
               /\ srv_cancel' = FALSE
          ELSE /\ srv_cancel' = (srv_cancel \/ srv_cur = p.q)
               /\ UNCHANGED srv_cur
    /\ UNCHANGED <<closed, io_failed, queue, current, phase, pending, chan, chan_end,
                   caller, received, downstream, srv_log, started, finished, cancelled, submitted>>
    /\ UNCHANGED <<viVars, strVars, colVars, tyVars, frVars, clVars>>

\* the server streams a Data block or a Progress packet of its response
ServerSend ==
    /\ ~closed
    /\ srv_cur # NoQuery
    /\ Len(downstream) < WireCap
    /\ \/ /\ ~srv_cancel
          /\ Len(srv_log[srv_cur]) < MaxBlocks
          /\ LET p == Packet("Data", srv_cur, Len(srv_log[srv_cur]) + 1)
             IN /\ downstream' = Append(downstream, p)
                /\ srv_log' = [srv_log EXCEPT ![srv_cur] = Append(@, p)]
       \/ /\ ~srv_cancel
          /\ srv_log[srv_cur] = <<>>
          /\ downstream = <<>>
          /\ downstream' = Append(downstream, Packet("Progress", srv_cur, 0))
          /\ UNCHANGED srv_log
    /\ UNCHANGED <<closed, io_failed, queue, current, phase, pending, chan, chan_end,
                   caller, received, upstream, srv_cur, srv_cancel, started, finished,
                   cancelled, submitted>>
    /\ UNCHANGED <<viVars, strVars, colVars, tyVars, frVars, clVars>>

\* the server ends its response with EndOfStream or with an Exception
ServerFinish ==
    /\ ~closed
    /\ srv_cur # NoQuery
    /\ Len(downstream) < WireCap
    /\ \E t \in {"EndOfStream", "Exception"} : downstream' = Append(downstream, Packet(t, srv_cur, 0))
    /\ srv_cur' = NoQuery
    /\ srv_cancel' = FALSE
    /\ UNCHANGED <<closed, io_failed, queue, current, phase, pending, chan, chan_end,
                   caller, received, upstream, srv_log, started, finished, cancelled,
                   submitted>>
    /\ UNCHANGED <<viVars, strVars, colVars, tyVars, frVars, clVars>>

MuxInit ==
    /\ closed = FALSE
    /\ io_failed = FALSE
    /\ queue = <<>>
    /\ current = NoQuery
    /\ phase = "idle"
    /\ pending = NoPacket
    /\ chan = [q \in Queries |-> <<>>]
    /\ chan_end = [q \in Queries |-> "open"]
    /\ caller = [q \in Queries |-> "new"]
    /\ received = [q \in Queries |-> <<>>]
    /\ upstream = <<>>
    /\ downstream = <<>>
    /\ srv_cur = NoQuery
    /\ srv_cancel = FALSE
    /\ srv_log = [q \in Queries |-> <<>>]
    /\ started = <<>>
    /\ finished = {}
    /\ cancelled = {}
    /\ submitted = <<>>

MuxNext ==
    \/ \E q \in Queries : Submit(q)
    \/ \E q \in Queries : Consume(q)
    \/ \E q \in Queries : DropHandle(q)
    \/ MuxStart
    \/ MuxRead
    \/ MuxSend
    \/ MuxCancel
    \/ IOError
    \/ ServerRecv
    \/ ServerSend
    \/ ServerFinish


\* ------------------------------------------------------------------------
\* Column codec (types/serialize/nullable.rs; spec.md 4.4 for the codecs
\* whose code is elsewhere; types/tests.rs for what the tests pin down)
\* ------------------------------------------------------------------------

\* ---- Type and Value ----

Type_UInt8 == [t |-> "UInt8"]
Type_UInt32 == [t |-> "UInt32"]
Type_String == [t |-> "String"]
Type_FixedString(n) == [t |-> "FixedString", n |-> n]
Type_Nullable(inner_type) == [t |-> "Nullable", inner |-> inner_type]
Type_Array(inner_type) == [t |-> "Array", inner |-> inner_type]
Type_LowCardinality(inner_type) == [t |-> "LowCardinality", inner |-> inner_type]

Value_Null == [k |-> "Null"]
Value_UInt8(n) == [k |-> "UInt8", v |-> n]
Value_UInt32(n) == [k |-> "UInt32", v |-> n]
Value_String(s) == [k |-> "String", v |-> s]
Value_Array(vs) == [k |-> "Array", v |-> vs]

\* `value == &Value::Null`
IsNull(value) == value.k = "Null"

\* the types whose column is one element after the other
IsScalar(type) == type.t \in {"UInt8", "UInt32", "String", "FixedString"}

\* what a serializer returned, and the bytes it had written by then
SerResult(ok, err, bytes) == [ok |-> ok, err |-> err, bytes |-> bytes]
SerOk(bytes) == SerResult(TRUE, "none", bytes)

\* what was written before r, and then r
After(prefix, r) == [r EXCEPT !.bytes = prefix \o @]

\* a u64, little-endian (the numbers written stay below 2^31)
U64LE(n) == LEOfInt(n) \o <<0, 0, 0, 0>>

\* ---- scalar columns ----

\* FixedString(n): exactly n bytes, zero-padded when shorter. Given more than
\* n bytes the serializer succeeds and what is read back differs from what
\* was given (roundtrip_string, FixedString(3)): the first n bytes are kept.
FixedStringBytes(s, n) ==
    IF Len(s) >= n THEN SerOk(SubSeq(s, 1, n))
    ELSE SerOk(s \o [i \in 1..(n - Len(s)) |-> 0])

\* one element of a scalar column; at a null position the zero of the type
ElemBytes(type, value) ==
    CASE type.t = "UInt8"  -> SerOk(<<IF IsNull(value) THEN 0 ELSE value.v>>)
      [] type.t = "UInt32" -> SerOk(LEOfInt(IF IsNull(value) THEN 0 ELSE value.v))
      [] type.t = "String" ->
            SerOk(write_string(Bytes(IF IsNull(value) THEN <<>> ELSE value.v, 0)).lit)
      [] type.t = "FixedString" ->
            FixedStringBytes(IF IsNull(value) THEN <<>> ELSE value.v, type.n)

\* the elements one after the other, up to the first that fails
RECURSIVE ScalarColumn(_, _, _)
ScalarColumn(type, values, written) ==
    IF values = <<>> THEN SerOk(written)
    ELSE LET e == ElemBytes(type, Head(values))
         IN IF e.ok THEN ScalarColumn(type, Tail(values), written \o e.bytes)
            ELSE SerResult(FALSE, e.err, written)

\* ---- Array ----

\* the number of immediate inner elements of the first i values
RECURSIVE InnerCount(_, _)
InnerCount(values, i) == IF i = 0 THEN 0 ELSE InnerCount(values, i - 1) + Len(values[i].v)

\* offsets that give each element's own length
ArrayLengths(values) == [i \in 1..Len(values) |-> Len(values[i].v)]

\* the cumulative offset of each element
ArrayOffsets(values) == [i \in 1..Len(values) |-> InnerCount(values, i)]

\* the inner elements of all the arrays, in order
Flatten(values) == Concat([i \in 1..Len(values) |-> values[i].v])

\* ---- LowCardinality ----

\* a dictionary that holds every row's value, repeated or not
RECURSIVE EveryRow(_, _)
EveryRow(values, dict) ==
    IF values = <<>> THEN dict ELSE EveryRow(Tail(values), Append(dict, Head(values)))

\* the distinct values in the order of their first occurrence, after dict
RECURSIVE FirstSeen(_, _)
FirstSeen(values, dict) ==
    IF values = <<>> THEN dict
    ELSE FirstSeen(Tail(values),
                   IF \E i \in 1..Len(dict) : dict[i] = Head(values)
                   THEN dict ELSE Append(dict, Head(values)))

\* the type the dictionary is serialized at: Nullable(T) is flattened to T
LcDictType(type) == IF type.inner.t = "Nullable" THEN type.inner.inner ELSE type.inner

\* the dictionary: with a Nullable inner type the null sentinel comes first
LcDictionary(type, values) ==
    IF type.inner.t = "Nullable"
    THEN FirstSeen(SelectSeq(values, LAMBDA v : ~IsNull(v)), <<Value_Null>>)
    ELSE FirstSeen(values, <<>>)

\* the index of a row's value in the dictionary
LcIndex(dict, value) == (CHOOSE i \in 1..Len(dict) : dict[i] = value) - 1

\* the flags, 0x0002_0202_0100_0000 with the index width OR'd in, little-endian
LcFlags(width) == <<width, 0, 0, 1, 2, 2, 2, 0>>

\* the version the LowCardinality header carries
LcVersion == 1

\* ---- serialize ----

\* the values line 29 hands to the inner column, without those that are Null
NonNullValues(values) == SelectSeq(values, LAMBDA v : ~IsNull(v))

\* the values line 29 hands to the inner column: all of them
NullableInnerValues(values) == values

\* a mask that marks the values that are present
PresenceMask(values) == [i \in 1..Len(values) |-> IF IsNull(values[i]) THEN 0 ELSE 1]

\* `values.iter().map(|value| u8::from(value == &Value::Null))`
NullMask(values) == [i \in 1..Len(values) |-> IF IsNull(values[i]) THEN 1 ELSE 0]

RECURSIVE serialize_column(_, _)
RECURSIVE NullableSerializer_write(_, _)

\* NullableSerializer::write
NullableSerializer_write(type, values) ==
    IF type.t # "Nullable" THEN SerResult(FALSE, "ProtocolError", <<>>)
    ELSE After(NullMask(values), serialize_column(type.inner, NullableInnerValues(values)))

\* Array(T): the offsets, then the inner column at the flattened length
ArraySerializer_write(type, values) ==
    After(Concat([i \in 1..Len(values) |-> U64LE(ArrayOffsets(values)[i])]),
          serialize_column(type.inner, Flatten(values)))

\* the indices of the rows, one byte each
LcIndices(dict, values) == [i \in 1..Len(values) |-> LcIndex(dict, values[i])]

\* LowCardinality(T) once the dictionary is built
LcWrite(type, values, dict) ==
    LET d == After(LcFlags(0) \o U64LE(Len(dict)), serialize_column(LcDictType(type), dict))
    IN IF d.ok THEN SerOk(d.bytes \o U64LE(Len(values)) \o LcIndices(dict, values)) ELSE d

\* LowCardinality(T): flags, index_size, the dictionary, row_count, the indices
LowCardinalitySerializer_write(type, values) == LcWrite(type, values, LcDictionary(type, values))

\* Type::serialize_column
serialize_column(type, values) ==
    CASE IsScalar(type)              -> ScalarColumn(type, values, <<>>)
      [] type.t = "Nullable"         -> NullableSerializer_write(type, values)
      [] type.t = "Array"            -> ArraySerializer_write(type, values)
      [] type.t = "LowCardinality"   -> LowCardinalitySerializer_write(type, values)

\* Type::serialize_prefix: the header of the type, through its inner types
RECURSIVE serialize_prefix(_)
serialize_prefix(type) ==
    CASE IsScalar(type)                      -> <<>>
      [] type.t = "LowCardinality"           -> U64LE(LcVersion)
      [] type.t \in {"Nullable", "Array"}    -> serialize_prefix(type.inner)

\* ---- deserialize ----

DesResult(ok, err, values, pos) == [ok |-> ok, err |-> err, values |-> values, pos |-> pos]
DesEof(pos) == DesResult(FALSE, "Io:UnexpectedEof", <<>>, pos)

\* a little-endian number of at most four bytes
RECURSIVE IntOfLE(_)
IntOfLE(bytes) == IF bytes = <<>> THEN 0 ELSE Head(bytes) + 256 * IntOfLE(Tail(bytes))

\* the bytes up to the zero padding
RECURSIVE Unpadded(_)
Unpadded(s) ==
    IF s # <<>> /\ s[Len(s)] = 0 THEN Unpadded(SubSeq(s, 1, Len(s) - 1)) ELSE s

\* the string read at offset pos, as a one-element result
ReadStringElem(r, pos) ==
    IF r.ok THEN DesResult(TRUE, "none", <<Value_String(r.value.lit)>>, pos + r.pos)
    ELSE DesResult(FALSE, r.err, <<>>, pos + r.pos)

\* one element of a scalar column read at offset pos
ReadElem(type, data, pos) ==
    CASE type.t = "UInt8" ->
            IF pos + 1 > Len(data) THEN DesEof(Len(data))
            ELSE DesResult(TRUE, "none", <<Value_UInt8(data[pos + 1])>>, pos + 1)
      [] type.t = "UInt32" ->
            IF pos + 4 > Len(data) THEN DesEof(Len(data))
            ELSE DesResult(TRUE, "none",
                           <<Value_UInt32(IntOfLE(SubSeq(data, pos + 1, pos + 4)))>>, pos + 4)
      [] type.t = "String" ->
            ReadStringElem(read_string(Bytes(SubSeq(data, pos + 1, Len(data)), 0)), pos)
      [] type.t = "FixedString" ->
            IF pos + type.n > Len(data) THEN DesEof(Len(data))
            ELSE DesResult(TRUE, "none",
                           <<Value_String(Unpadded(SubSeq(data, pos + 1, pos + type.n)))>>,
                           pos + type.n)

RECURSIVE ReadElems(_, _, _, _, _)
RECURSIVE ReadElemsNext(_, _, _, _, _)
ReadElems(type, data, pos, n, acc) ==
    IF n = 0 THEN DesResult(TRUE, "none", acc, pos)
    ELSE ReadElemsNext(type, data, n, acc, ReadElem(type, data, pos))

ReadElemsNext(type, data, n, acc, e) ==
    IF e.ok THEN ReadElems(type, data, e.pos, n - 1, acc \o e.values)
    ELSE DesResult(FALSE, e.err, acc, e.pos)

\* n u64 read at offset pos
ReadU64s(data, pos, n) ==
    IF pos + 8 * n > Len(data) THEN DesEof(Len(data))
    ELSE DesResult(TRUE, "none",
                   [i \in 1..n |-> IntOfLE(SubSeq(data, pos + 8 * i - 7, pos + 8 * i - 4))],
                   pos + 8 * n)

\* n bytes read at offset pos
ReadU8s(data, pos, n) ==
    IF pos + n > Len(data) THEN DesEof(Len(data))
    ELSE DesResult(TRUE, "none", SubSeq(data, pos + 1, pos + n), pos + n)

\* Nullable(T): the values of the inner column, Null where the mask says so
Masked(mask, inner_col) ==
    IF ~inner_col.ok THEN inner_col
    ELSE [inner_col EXCEPT !.values =
             [i \in 1..Len(mask) |-> IF mask[i] # 0 THEN Value_Null ELSE inner_col.values[i]]]

\* Array(T): the inner column cut at the offsets
Sliced(offsets, inner_col) ==
    IF ~inner_col.ok THEN inner_col
    ELSE [inner_col EXCEPT !.values =
             [i \in 1..Len(offsets) |->
                 Value_Array(SubSeq(inner_col.values,
                                    (IF i = 1 THEN 0 ELSE offsets[i - 1]) + 1, offsets[i]))]]

\* LowCardinality(T): the rows looked up in the dictionary; with a Nullable
\* inner type index 0 is Null
LookedUp(type, dict, indices) ==
    IF ~indices.ok THEN indices
    ELSE IF \E i \in 1..Len(indices.values) : indices.values[i] >= Len(dict)
         THEN DesResult(FALSE, "ProtocolError", <<>>, indices.pos)
    ELSE [indices EXCEPT !.values =
             [i \in 1..Len(indices.values) |->
                 IF type.inner.t = "Nullable" /\ indices.values[i] = 0 THEN Value_Null
                 ELSE dict[indices.values[i] + 1]]]

RECURSIVE deserialize_column(_, _, _, _)

NullableDeserialize(type, data, n, mask) ==
    IF ~mask.ok THEN mask
    ELSE Masked(mask.values, deserialize_column(type.inner, data, mask.pos, n))

ArrayDeserialize(type, data, n, offsets) ==
    IF ~offsets.ok THEN offsets
    ELSE Sliced(offsets.values,
                deserialize_column(type.inner, data, offsets.pos,
                                   IF n = 0 THEN 0 ELSE offsets.values[n]))

LcRows(type, data, n, dict, rows) ==
    IF ~rows.ok THEN rows
    ELSE IF rows.values[1] # n THEN DesResult(FALSE, "ProtocolError", <<>>, rows.pos)
    ELSE LookedUp(type, dict, ReadU8s(data, rows.pos, n))

LcDict(type, data, n, dict) ==
    IF ~dict.ok THEN dict
    ELSE LcRows(type, data, n, dict.values, ReadU64s(data, dict.pos, 1))

LcDeserialize(type, data, n, head) ==
    IF ~head.ok THEN head
    ELSE LcDict(type, data, n,
                deserialize_column(LcDictType(type), data, head.pos, head.values[2]))

\* Type::deserialize_column: n elements read at offset pos of data
deserialize_column(type, data, pos, n) ==
    CASE IsScalar(type)            -> ReadElems(type, data, pos, n, <<>>)
      [] type.t = "Nullable"       -> NullableDeserialize(type, data, n, ReadU8s(data, pos, n))
      [] type.t = "Array"          -> ArrayDeserialize(type, data, n, ReadU64s(data, pos, n))
      [] type.t = "LowCardinality" -> LcDeserialize(type, data, n, ReadU64s(data, pos, 2))

\* Type::deserialize_prefix: the offset after the header of the type
RECURSIVE deserialize_prefix(_, _, _)
deserialize_prefix(type, data, pos) ==
    CASE IsScalar(type)                   -> DesResult(TRUE, "none", <<>>, pos)
      [] type.t = "LowCardinality"        ->
            ReadU64s(data, pos, 1)
      [] type.t \in {"Nullable", "Array"} -> deserialize_prefix(type.inner, data, pos)

\* ---- the columns tried ----

\* the rows of a column, at most
MaxRows == 3

\* roundtrip_string: FixedString(3), which the longer strings do not fit
FixedLen == 3

Str(s) == Value_String(s)
U32(n) == Value_UInt32(n)
Arr(vs) == Value_Array(vs)

\* the strings "", "a", "abc", "bcd", "bcd2"
S_ == Str(<<>>)
S_a == Str(<<97>>)
S_abc == Str(<<97, 98, 99>>)
S_bcd == Str(<<98, 99, 100>>)
S_bcd2 == Str(<<98, 99, 100, 50>>)

\* a type and the values a row of it is drawn from
Column(type, elems) == [type |-> type, elems |-> elems]

ColumnKinds == <<
    Column(Type_UInt8, {Value_UInt8(0), Value_UInt8(255)}),
    Column(Type_UInt32, {U32(0), U32(1), U32(16909060)}),
    Column(Type_String, {S_, S_a, S_abc}),
    Column(Type_FixedString(FixedLen), {S_, S_a, S_abc, S_bcd2}),
    Column(Type_Nullable(Type_UInt32), {Value_Null, U32(0), U32(35)}),
    Column(Type_Nullable(Type_String), {Value_Null, S_, S_a}),
    Column(Type_Nullable(Type_FixedString(FixedLen)), {Value_Null, S_a, S_abc}),
    Column(Type_Array(Type_UInt32),
           {Arr(<<>>), Arr(<<U32(0)>>), Arr(<<U32(1), U32(2), U32(3)>>)}),
    Column(Type_Array(Type_String), {Arr(<<>>), Arr(<<S_>>), Arr(<<S_a, S_abc>>)}),
    Column(Type_Array(Type_Nullable(Type_UInt32)),
           {Arr(<<>>), Arr(<<Value_Null>>), Arr(<<U32(0), Value_Null>>),
            Arr(<<Value_Null, U32(0)>>)}),
    Column(Type_Array(Type_Array(Type_UInt32)),
           {Arr(<<>>), Arr(<<Arr(<<>>)>>), Arr(<<Arr(<<U32(1)>>)>>),
            Arr(<<Arr(<<U32(2)>>), Arr(<<U32(3)>>)>>),
            Arr(<<Arr(<<>>), Arr(<<U32(4), U32(5)>>)>>)}),
    Column(Type_LowCardinality(Type_String), {S_, S_abc, S_bcd}),
    Column(Type_LowCardinality(Type_Nullable(Type_String)), {Value_Null, S_, S_abc}),
    Column(Type_Array(Type_LowCardinality(Type_Nullable(Type_String))),
           {Arr(<<>>), Arr(<<S_>>), Arr(<<Value_Null>>), Arr(<<S_abc, Value_Null, S_abc>>)}) >>

\* every list of at most MaxRows rows
RowsOf(elems) == UNION {[1..n -> elems] : n \in 0..MaxRows}

\* the sequences of the tests roundtrip_low_cardinality_string and
\* roundtrip_low_cardinality_string_null, cut after the sixth and seventh row
LcExample == <<S_, S_abc, S_abc, S_bcd, S_bcd2, S_abc>>
LcNullExample == <<S_, Value_Null, S_abc, S_abc, S_bcd, S_bcd2, Value_Null>>

NoSer == SerResult(FALSE, "none", <<>>)
NoDes == DesResult(FALSE, "none", <<>>, 0)

ColIdle ==
    /\ col_pc = "idle"
    /\ col_type = Type_UInt8
    /\ col_values = <<>>
    /\ col_wire = NoSer
    /\ col_res = NoDes

ColInit ==
    /\ col_pc = "serialize"
    /\ \/ \E i \in 1..Len(ColumnKinds) :
             /\ col_type = ColumnKinds[i].type
             /\ col_values \in RowsOf(ColumnKinds[i].elems)
       \/ /\ col_type = Type_LowCardinality(Type_String)
          /\ col_values = LcExample
       \/ /\ col_type = Type_LowCardinality(Type_Nullable(Type_String))
          /\ col_values = LcNullExample
    /\ col_wire = NoSer
    /\ col_res = NoDes

\* roundtrip_values, first half: serialize_prefix and serialize_column
SerializeColumn ==
    /\ col_pc = "serialize"
    /\ col_wire' = After(serialize_prefix(col_type), serialize_column(col_type, col_values))
    /\ col_pc' = "deserialize"
    /\ UNCHANGED <<col_type, col_values, col_res>>
    /\ UNCHANGED <<viVars, strVars, tyVars, frVars, muxVars, clVars>>

\* the column read after its header
ColumnAfterPrefix(type, data, n, prefix) ==
    IF ~prefix.ok THEN prefix ELSE deserialize_column(type, data, prefix.pos, n)

\* roundtrip_values, second half: deserialize_prefix and deserialize_column
\* with n = values.len(); a failed serialization is returned as it is
DeserializeColumn ==
    /\ col_pc = "deserialize"
    /\ col_res' = IF col_wire.ok
                  THEN ColumnAfterPrefix(col_type, col_wire.bytes, Len(col_values),
                                         deserialize_prefix(col_type, col_wire.bytes, 0))
                  ELSE DesResult(FALSE, col_wire.err, <<>>, 0)
    /\ col_pc' = "done"
    /\ UNCHANGED <<col_type, col_values, col_wire>>
    /\ UNCHANGED <<viVars, strVars, tyVars, frVars, muxVars, clVars>>

\* NullableSerializer::write called with the type and the values as they are
NullableWrite ==
    /\ col_pc = "serialize"
    /\ col_wire' = NullableSerializer_write(col_type, col_values)
    /\ col_pc' = "written"
    /\ UNCHANGED <<col_type, col_values, col_res>>
    /\ UNCHANGED <<viVars, strVars, tyVars, frVars, muxVars, clVars>>

\* ------------------------------------------------------------------------
\* Type grammar (spec.md 4.3; types/tests.rs for the texts the tests parse)
\* ------------------------------------------------------------------------

\* ---- the types with arguments that are not types ----

Type_UInt16 == [t |-> "UInt16"]
Type_Decimal(precision, scale) == [t |-> "Decimal", precision |-> precision, scale |-> scale]
Type_DateTime(tz) == [t |-> "DateTime", tz |-> tz]
Type_DateTime64(precision, tz) == [t |-> "DateTime64", precision |-> precision, tz |-> tz]
Type_Map(key, value) == [t |-> "Map", key |-> key, value |-> value]
Type_Tuple(items) == [t |-> "Tuple", items |-> items]
Type_Enum8(entries) == [t |-> "Enum8", entries |-> entries]
Type_Enum16(entries) == [t |-> "Enum16", entries |-> entries]

\* an entry of an enum: (name, value)
Entry(name, value) == [name |-> name, value |-> value]

\* the types written without arguments
SimpleNames == {"UInt8", "UInt16", "UInt32", "String"}

\* ---- characters ----

\* the character of text at pos, "" after the end
At(text, pos) == IF pos >= 1 /\ pos <= Len(text) THEN SubSeq(text, pos, pos) ELSE ""

CharsOf(text) == {SubSeq(text, i, i) : i \in 1..Len(text)}

DigitChars == CharsOf("0123456789")
IdentChars == CharsOf("ABCDEFGHIJKLMNOPQRSTUVWXYZabcdefghijklmnopqrstuvwxyz0123456789_")

DigitValue(c) == CHOOSE d \in 0..9 : SubSeq("0123456789", d + 1, d + 1) = c
DigitChar(d) == SubSeq("0123456789", d + 1, d + 1)

\* ---- Display ----

\* a natural number in decimal
RECURSIVE NatText(_)
NatText(n) == IF n < 10 THEN DigitChar(n) ELSE NatText(n \div 10) \o DigitChar(n % 10)

\* an integer in decimal
IntText(n) == IF n < 0 THEN "-" \o NatText(0 - n) ELSE NatText(n)

\* a name written between the quotes as it is
RawName(name) == name

\* a name written between the quotes: a backslash before a quote or a backslash
RECURSIVE Escaped(_)
Escaped(name) ==
    IF name = "" THEN ""
    ELSE (IF Head(name) \in {"'", "\\"} THEN "\\" ELSE "") \o Head(name) \o Escaped(Tail(name))

\* a string literal
Quoted(name) == "'" \o Escaped(name) \o "'"

\* the texts joined by ", "
RECURSIVE Joined(_)
Joined(texts) ==
    IF texts = <<>> THEN ""
    ELSE IF Len(texts) = 1 THEN texts[1]
    ELSE texts[1] \o ", " \o Joined(Tail(texts))

\* 'name' = value
EntryText(entry) == Quoted(entry.name) \o " = " \o IntText(entry.value)

\* the canonical text of a type
RECURSIVE to_string(_)
to_string(type) ==
    CASE type.t \in SimpleNames   -> type.t
      [] type.t = "FixedString"   -> "FixedString(" \o IntText(type.n) \o ")"
      [] type.t \in {"Nullable", "Array", "LowCardinality"} ->
            type.t \o "(" \o to_string(type.inner) \o ")"
      [] type.t = "Map"           ->
            "Map(" \o to_string(type.key) \o ", " \o to_string(type.value) \o ")"
      [] type.t = "Tuple"         ->
            "Tuple(" \o Joined([i \in 1..Len(type.items) |-> to_string(type.items[i])]) \o ")"
      [] type.t = "Decimal"       ->
            "Decimal(" \o IntText(type.precision) \o ", " \o IntText(type.scale) \o ")"
      [] type.t = "DateTime"      ->
            IF type.tz = "" THEN "DateTime" ELSE "DateTime(" \o Quoted(type.tz) \o ")"
      [] type.t = "DateTime64"    ->
            "DateTime64(" \o IntText(type.precision)
                \o (IF type.tz = "" THEN "" ELSE ", " \o Quoted(type.tz)) \o ")"
      [] type.t \in {"Enum8", "Enum16"} ->
            type.t \o "(" \o Joined([i \in 1..Len(type.entries) |-> EntryText(type.entries[i])])
                \o ")"

\* ---- FromStr ----

PResult(ok, val, pos) == [ok |-> ok, val |-> val, pos |-> pos]
PFail(pos) == PResult(FALSE, <<>>, pos)

\* the arguments of a type expression
ArgInt(n) == [kind |-> "int", v |-> n]
ArgStr(s) == [kind |-> "str", v |-> s]
ArgEntry(name, value) == [kind |-> "entry", v |-> Entry(name, value)]
ArgType(type) == [kind |-> "type", v |-> type]

RECURSIVE SkipWs(_, _)
SkipWs(text, pos) == IF At(text, pos) = " " THEN SkipWs(text, pos + 1) ELSE pos

RECURSIVE IdentEnd(_, _)
IdentEnd(text, pos) == IF At(text, pos) \in IdentChars THEN IdentEnd(text, pos + 1) ELSE pos

RECURSIVE DigitsEnd(_, _)
DigitsEnd(text, pos) == IF At(text, pos) \in DigitChars THEN DigitsEnd(text, pos + 1) ELSE pos

\* the number the digits text[pos..end-1] stand for, after acc
RECURSIVE NatOf(_, _, _, _)
NatOf(text, pos, end, acc) ==
    IF pos >= end THEN acc
    ELSE NatOf(text, pos + 1, end, 10 * acc + DigitValue(At(text, pos)))

\* an integer literal: an optional minus sign and at least one digit (at most
\* nine are read here, which covers every i16 and the values of the tests)
IntLiteral(text, pos, start, end) ==
    IF end = start \/ end - start > 9 THEN PFail(start)
    ELSE PResult(TRUE, (IF start > pos THEN -1 ELSE 1) * NatOf(text, start, end, 0), end)

ParseInt(text, pos) ==
    IntLiteral(text, pos, IF At(text, pos) = "-" THEN pos + 1 ELSE pos,
               DigitsEnd(text, IF At(text, pos) = "-" THEN pos + 1 ELSE pos))

\* the rest of a string literal after its opening quote: a backslash takes
\* the next character as it is, a quote ends the literal
RECURSIVE StrBody(_, _, _)
StrBody(text, pos, acc) ==
    CASE At(text, pos) = ""   -> PFail(pos)
      [] At(text, pos) = "'"  -> PResult(TRUE, acc, pos + 1)
      [] At(text, pos) = "\\" ->
            IF At(text, pos + 1) = "" THEN PFail(pos + 1)
            ELSE StrBody(text, pos + 2, acc \o At(text, pos + 1))
      [] OTHER                -> StrBody(text, pos + 1, acc \o At(text, pos))

\* values that fit in unsigned 8-bit and unsigned 16-bit
EnumValueFitsUnsigned(name, value) ==
    IF name = "Enum8" THEN value \in -128..255 ELSE value \in -32768..65535

\* Enum8 values fit in signed 8-bit, Enum16 values in signed 16-bit
EnumValueFits(name, value) ==
    IF name = "Enum8" THEN value \in -128..127 ELSE value \in -32768..32767

\* no name and no value occurs twice
EnumDistinct(entries) ==
    \A i, j \in 1..Len(entries) :
        i # j => (entries[i].name # entries[j].name /\ entries[i].value # entries[j].value)

AllOfKind(args, kind) == \A i \in 1..Len(args) : args[i].kind = kind

ArgVals(args) == [i \in 1..Len(args) |-> args[i].v]

\* an enum from its entries, validated
EnumOf(name, entries) ==
    IF /\ entries # <<>>
       /\ \A i \in 1..Len(entries) : EnumValueFits(name, entries[i].value)
       /\ EnumDistinct(entries)
    THEN PResult(TRUE, [t |-> name, entries |-> entries], 0)
    ELSE PFail(0)

\* the type an identifier and its arguments stand for
BuildType(name, args) ==
    CASE name \in SimpleNames /\ args = <<>> -> PResult(TRUE, [t |-> name], 0)
      [] name = "FixedString" /\ Len(args) = 1 /\ AllOfKind(args, "int") /\ args[1].v >= 0 ->
            PResult(TRUE, Type_FixedString(args[1].v), 0)
      [] name \in {"Nullable", "Array", "LowCardinality"}
            /\ Len(args) = 1 /\ AllOfKind(args, "type") ->
            PResult(TRUE, [t |-> name, inner |-> args[1].v], 0)
      [] name = "Map" /\ Len(args) = 2 /\ AllOfKind(args, "type") ->
            PResult(TRUE, Type_Map(args[1].v, args[2].v), 0)
      [] name = "Tuple" /\ Len(args) >= 1 /\ AllOfKind(args, "type") ->
            PResult(TRUE, Type_Tuple(ArgVals(args)), 0)
      [] name = "Decimal" /\ Len(args) = 2 /\ AllOfKind(args, "int") ->
            PResult(TRUE, Type_Decimal(args[1].v, args[2].v), 0)
      [] name = "DateTime" /\ args = <<>> -> PResult(TRUE, Type_DateTime(""), 0)
      [] name = "DateTime" /\ Len(args) = 1 /\ AllOfKind(args, "str") ->
            PResult(TRUE, Type_DateTime(args[1].v), 0)
      [] name = "DateTime64" /\ Len(args) = 1 /\ AllOfKind(args, "int") ->
            PResult(TRUE, Type_DateTime64(args[1].v, ""), 0)
      [] name = "DateTime64" /\ Len(args) = 2 /\ args[1].kind = "int" /\ args[2].kind = "str" ->
            PResult(TRUE, Type_DateTime64(args[1].v, args[2].v), 0)
      [] name \in {"Enum8", "Enum16"} /\ AllOfKind(args, "entry") ->
            EnumOf(name, ArgVals(args))
      [] OTHER -> PFail(0)

RECURSIVE ParseType(_, _)
RECURSIVE ParseArgs(_, _, _)
RECURSIVE ParseArg(_, _)

\* what follows a string literal: `= integer` makes it an enum entry
EntryValue(name, value) ==
    IF value.ok THEN PResult(TRUE, ArgEntry(name, value.val), value.pos) ELSE value

AfterStr(text, str, pos) ==
    IF At(text, pos) = "="
    THEN EntryValue(str.val, ParseInt(text, SkipWs(text, pos + 1)))
    ELSE PResult(TRUE, ArgStr(str.val), str.pos)

StrArg(text, str) == IF str.ok THEN AfterStr(text, str, SkipWs(text, str.pos)) ELSE str

IntArg(int) == IF int.ok THEN PResult(TRUE, ArgInt(int.val), int.pos) ELSE int

TypeArg(type) == IF type.ok THEN PResult(TRUE, ArgType(type.val), type.pos) ELSE type

\* one argument: a string literal or enum entry, an integer literal, or a type
ParseArg(text, pos) ==
    CASE At(text, pos) = "'" -> StrArg(text, StrBody(text, pos + 1, ""))
      [] At(text, pos) \in DigitChars \cup {"-"} -> IntArg(ParseInt(text, pos))
      [] OTHER -> TypeArg(ParseType(text, pos))

\* after an argument: a comma and the next argument, or the closing parenthesis
ArgsNext(text, acc, arg, pos) ==
    CASE At(text, pos) = "," -> ParseArgs(text, SkipWs(text, pos + 1), Append(acc, arg))
      [] At(text, pos) = ")" -> PResult(TRUE, Append(acc, arg), pos + 1)
      [] OTHER -> PFail(pos)

ArgsAfter(text, acc, arg) ==
    IF arg.ok THEN ArgsNext(text, acc, arg.val, SkipWs(text, arg.pos)) ELSE arg

ParseArgs(text, pos, acc) == ArgsAfter(text, acc, ParseArg(text, pos))

\* the type built from the identifier and the parsed arguments
Built(built, pos) == IF built.ok THEN PResult(TRUE, built.val, pos) ELSE PFail(pos)

WithArgs(name, args) ==
    IF args.ok THEN Built(BuildType(name, args.val), args.pos) ELSE args

\* identifier ( argument-list )?
TypeAt(text, pos, end) ==
    IF end = pos THEN PFail(pos)
    ELSE IF At(text, end) = "("
         THEN WithArgs(SubSeq(text, pos, end - 1), ParseArgs(text, SkipWs(text, end + 1), <<>>))
         ELSE Built(BuildType(SubSeq(text, pos, end - 1), <<>>), end)

ParseType(text, pos) == TypeAt(text, pos, IdentEnd(text, pos))

\* the result of parsing a text
TyResult(ok, err, type) == [ok |-> ok, err |-> err, type |-> type]
NoType == [t |-> "none"]
NoTyResult == TyResult(FALSE, "none", NoType)

\* the whole text is one type expression
Parsed(text, r) ==
    IF r.ok /\ SkipWs(text, r.pos) = Len(text) + 1 THEN TyResult(TRUE, "none", r.val)
    ELSE TyResult(FALSE, "TypeParseError", NoType)

\* Type::from_str
parse(text) == Parsed(text, ParseType(text, SkipWs(text, 1)))

\* ---- the types and texts tried ----

\* the entries of an enum, at most
MaxEntries == 2

EnumNames == {"a", "b", "it's", "hello, world"}

\* the values at and next to the ends of i8 and of i16, and those of the tests
Enum8Values == {-129, -128, 1, 127, 128, 200}
Enum16Values == {-32769, -32768, 1000, 32767, 32768, 100000}

EntryLists(names, values) ==
    UNION {[1..n -> {Entry(name, value) : name \in names, value \in values}] : n \in 1..MaxEntries}

\* every enum over the names and values, valid or not
RawEnums ==
    {Type_Enum8(entries) : entries \in EntryLists(EnumNames, Enum8Values)}
        \cup {Type_Enum16(entries) : entries \in EntryLists({"a", "b"}, Enum16Values)}

\* an enum that Type::from_str accepts
ValidEnum(type) ==
    /\ \A i \in 1..Len(type.entries) : EnumValueFits(type.t, type.entries[i].value)
    /\ EnumDistinct(type.entries)

\* the types of spec.md 8 and of the tests
ExampleTypes ==
    { Type_Enum8(<<Entry("hello", 1), Entry("world", 2)>>),
      Type_Enum16(<<Entry("alpha", 1000), Entry("beta", 2000)>>),
      Type_Enum16(<<Entry("foo", 100), Entry("bar", 200)>>),
      Type_Array(Type_Nullable(Type_String)),
      Type_LowCardinality(Type_Nullable(Type_FixedString(8))),
      Type_LowCardinality(Type_FixedString(16)),
      Type_Map(Type_LowCardinality(Type_String), Type_UInt32),
      Type_Decimal(18, 4),
      Type_Decimal(9, 3),
      Type_DateTime64(3, "UTC"),
      Type_DateTime64(3, ""),
      Type_DateTime("UTC"),
      Type_DateTime(""),
      Type_Tuple(<<Type_UInt32, Type_Tuple(<<Type_UInt32, Type_UInt16>>)>>),
      Type_Array(Type_Array(Type_UInt32)),
      Type_Array(Type_LowCardinality(Type_Nullable(Type_String))),
      Type_UInt8, Type_UInt16, Type_UInt32, Type_String }

TypeInputs == ExampleTypes \cup {type \in RawEnums : ValidEnum(type)}

\* texts that are not the canonical text of a type
OtherTexts ==
    { "Enum8('a' = 200)", "Enum16('a' = 100000)", "Enum8('a' = -128, 'b' = 127)",
      "Enum8('it\\'s' = 1, 'normal' = 2)", "Enum8('hello, world' = 1, 'foo' = 2)",
      "Enum8('a'=1,'b'=2)", " Array( UInt8 ) ", "Enum8('a' = 1", "Enum8('a = 1)",
      "Enum8(1)", "Enum8()", "Nullable", "Array(UInt8) x", "Frob(UInt8)", "" }

TyIdle ==
    /\ ty_pc = "idle"
    /\ ty_type = NoType
    /\ ty_text = ""
    /\ ty_res = NoTyResult

TyInit ==
    /\ \/ /\ ty_pc = "display"
          /\ ty_type \in TypeInputs
          /\ ty_text = ""
       \/ /\ ty_pc = "parse_text"
          /\ \/ /\ ty_type \in RawEnums
                /\ ty_text = to_string(ty_type)
             \/ /\ ty_type = NoType
                /\ ty_text \in OtherTexts
    /\ ty_res = NoTyResult

\* t.to_string()
Display ==
    /\ ty_pc = "display"
    /\ ty_text' = to_string(ty_type)
    /\ ty_pc' = "parse"
    /\ UNCHANGED <<ty_type, ty_res>>
    /\ UNCHANGED <<viVars, strVars, colVars, frVars, muxVars, clVars>>

\* text.parse::<Type>()
Parse ==
    /\ ty_pc \in {"parse", "parse_text"}
    /\ ty_res' = parse(ty_text)
    /\ ty_pc' = IF ty_pc = "parse" THEN "done" ELSE "done_text"
    /\ UNCHANGED <<ty_type, ty_text>>
    /\ UNCHANGED <<viVars, strVars, colVars, frVars, muxVars, clVars>>

\* ------------------------------------------------------------------------
\* Error annotation (errors.rs)
\* ------------------------------------------------------------------------

\* a KlickhouseError with the column it names, if any, and what it carries
ColumnError(variant, column, payload) ==
    [variant |-> variant, column |-> column, payload |-> payload]

\* the variants of KlickhouseError that carry no column name
PlainVariants ==
    {"MissingRow", "DoubleFetch", "OutOfBounds", "MissingField", "DuplicateField",
     "ProtocolError", "TypeParseError", "DeserializeError", "SerializeError",
     "ServerException", "UnexpectedType", "Io", "Utf8", "Timeout", "ConnectionError",
     "CompressionError", "NotImplemented"}

\* DeserializeErrorWithColumn, UnexpectedTypeWithColumn
ColumnVariants == {"DeserializeErrorWithColumn", "UnexpectedTypeWithColumn"}

\* every error is annotated, the annotated ones again
with_column_name_overwrites(self, name) ==
    CASE self.variant \in {"DeserializeError", "DeserializeErrorWithColumn"} ->
            ColumnError("DeserializeErrorWithColumn", name, self.payload)
      [] self.variant \in {"UnexpectedType", "UnexpectedTypeWithColumn"} ->
            ColumnError("UnexpectedTypeWithColumn", name, self.payload)
      [] OTHER -> self

\* KlickhouseError::with_column_name
with_column_name(self, name) ==
    CASE self.variant = "DeserializeError" ->
            ColumnError("DeserializeErrorWithColumn", name, self.payload)
      [] self.variant = "UnexpectedType" ->
            ColumnError("UnexpectedTypeWithColumn", name, self.payload)
      [] OTHER -> self

\* how often with_column_name is applied to one error, at most
MaxApply == 2

ColumnNames == {"col", "id"}
Payloads == {"t", "c"}

ErrorInputs ==
    {ColumnError(variant, "none", payload) : variant \in PlainVariants, payload \in Payloads}
        \cup {ColumnError(variant, column, payload) :
                 variant \in ColumnVariants, column \in ColumnNames, payload \in Payloads}

ErrIdle ==
    /\ err_orig = ColumnError("none", "none", "none")
    /\ err_value = err_orig
    /\ err_names = <<>>

ErrInit ==
    /\ err_orig \in ErrorInputs
    /\ err_value = err_orig
    /\ err_names = <<>>

\* err.with_column_name(name)
WithColumnName ==
    /\ err_orig.variant # "none"
    /\ Len(err_names) < MaxApply
    /\ \E name \in ColumnNames :
          /\ err_value' = with_column_name(err_value, name)
          /\ err_names' = Append(err_names, name)
    /\ UNCHANGED err_orig
    /\ UNCHANGED <<viVars, strVars, colVars, tyVars, frVars, muxVars, lockVars, extVars>>

\* ------------------------------------------------------------------------
\* ClickhouseLock and the migration execute (lock.rs, migrate.rs)
\* ------------------------------------------------------------------------

\* the clients that use the lock _lock_refinery_exec
Clients == {"a", "b"}

\* Duration::from_secs(300), in ms
LockTimeoutMs == 300000

\* Duration::from_millis(250)
PollPauseMs == 250

\* Duration::from_millis(100)
LockRetryMs == 100

\* the elapsed times told apart: around the pauses and around the timeout
Instants ==
    {0, PollPauseMs, LockTimeoutMs, LockTimeoutMs + 1, LockTimeoutMs + PollPauseMs}

\* an await returns at once or at any later instant
AwaitTo(t) == {u \in Instants : u >= t}

\* tokio::time::sleep(pause) returns after pause or later
SleepTo(t, pause) ==
    IF \E u \in Instants : u >= t + pause
    THEN {u \in Instants : u >= t + pause}
    ELSE {LockTimeoutMs + PollPauseMs}

\* the pause between two attempts: 250 ms in execute, 100 ms in lock()
Pause(mode) == IF mode = "lock" THEN LockRetryMs ELSE PollPauseMs

\* the give-up test with the bound included
TimedOutInclusive(elapsed) == elapsed >= LockTimeoutMs

\* `elapsed > Duration::from_secs(300)`
TimedOut(elapsed) == elapsed > LockTimeoutMs

\* a handle for every reply
TryLockAlwaysHandle(reply) ==
    CASE reply \in {"ok", "exists"} -> "handle"
      [] OTHER -> "err"

\* try_lock and lock: what the reply to CREATE TABLE is turned into
TryLockOutcome(reply) ==
    CASE reply = "ok" -> "handle"
      [] reply = "exists" -> "none"
      [] OTHER -> "err"

\* a Drop that spawns the task whatever the handle holds
DropSpawnsAlways(handle) == handle \in {"held", "taken"}

\* Drop for ClickhouseLockHandle: `if let Some(lock) = self.lock.take()`
DropSpawns(handle) == handle = "held"

\* the loop goes on after a statement that failed
StatementNeverStops(ok) == FALSE

\* `Client::execute(self, query).await?`
StatementStops(ok) == ~ok

RECURSIVE FlatStatements(_)
FlatStatements(queries) ==
    IF queries = <<>> THEN <<>> ELSE Head(queries) \o FlatStatements(Tail(queries))

\* the statements execute sends: Client skips the empty ones, ClusterMigration
\* sends every statement that split_query_statements gives
Statements(mode, queries) ==
    IF mode = "execute"
    THEN SelectSeq(FlatStatements(queries), LAMBDA s : s # "")
    ELSE FlatStatements(queries)

\* the queries handed to execute, each as split_query_statements splits it
QueryInputs ==
    { <<>>,
      << <<"s1">> >>,
      << <<"s1", "s2">>, <<>>, <<"", "s3">> >> }

\* what a client holds of one call
ClientState(mode) ==
    [mode     |-> mode,
     pc       |-> "start",
     handle   |-> "none",
     reply    |-> "none",
     elapsed  |-> 0,
     retry_at |-> -1,
     slept    |-> -1,
     seen     |-> -1,
     todo     |-> <<>>,
     sent     |-> <<>>,
     in_flight |-> FALSE,
     result   |-> "none",
     n        |-> -1,
     task     |-> "none",
     drops    |-> 0]

LockIdle ==
    /\ lk_table = FALSE
    /\ lk_queries = <<>>
    /\ lk = [c \in Clients |-> ClientState("idle")]

LockInit ==
    /\ lk_table = FALSE
    /\ lk_queries \in QueryInputs
    /\ \E ma \in {"execute", "cluster", "lock"} : \E mb \in {"execute", "try_lock", "lock"} :
          lk = [c \in Clients |-> ClientState(IF c = "a" THEN ma ELSE mb)]

OthersUnchanged == UNCHANGED <<viVars, strVars, colVars, tyVars, frVars, muxVars, errVars, extVars>>

\* `let start = Instant::now()` and the statements of the queries
Start(c) ==
    /\ lk[c].pc = "start" /\ lk[c].mode # "idle"
    /\ lk' = [lk EXCEPT ![c].pc = "try",
                        ![c].todo = IF lk[c].mode \in {"execute", "cluster"}
                                    THEN Statements(lk[c].mode, lk_queries) ELSE <<>>]
    /\ UNCHANGED <<lk_table, lk_queries>>
    /\ OthersUnchanged

\* self.client.execute("CREATE TABLE _lock_...") at the server: it succeeds
\* for one caller while the table exists, or fails for another reason
CreateTable(c) ==
    /\ lk[c].pc = "try"
    /\ \E reply \in {IF lk_table THEN "exists" ELSE "ok", "error"} :
       \E t \in AwaitTo(lk[c].elapsed) :
          /\ lk_table' = (lk_table \/ reply = "ok")
          /\ lk' = [lk EXCEPT ![c].pc = "tried", ![c].reply = reply, ![c].elapsed = t]
    /\ UNCHANGED lk_queries
    /\ OthersUnchanged

\* what execute does with Ok(None): give up or pause
AfterNone(cl) ==
    CASE cl.mode = "try_lock" -> [cl EXCEPT !.pc = "returned", !.result = "None"]
      [] cl.mode = "lock" -> [cl EXCEPT !.pc = "sleep", !.retry_at = cl.elapsed]
      [] OTHER ->
            IF TimedOut(cl.elapsed)
            THEN [cl EXCEPT !.pc = "returned", !.result = "Timeout", !.seen = cl.elapsed]
            ELSE [cl EXCEPT !.pc = "sleep", !.retry_at = cl.elapsed, !.seen = cl.elapsed]

\* try_lock or lock has the reply: a handle, Ok(None), or the error
AfterCreate(cl, outcome) ==
    CASE outcome = "handle" ->
            [cl EXCEPT !.handle = "held", !.drops = 0, !.task = "none",
                       !.pc = IF cl.mode \in {"execute", "cluster"} THEN "run" ELSE "holding"]
      [] outcome = "none" -> AfterNone(cl)
      [] OTHER -> [cl EXCEPT !.pc = "returned", !.result = "Err"]

TryLockReturn(c) ==
    /\ lk[c].pc = "tried"
    /\ lk' = [lk EXCEPT ![c] = AfterCreate(lk[c], TryLockOutcome(lk[c].reply))]
    /\ UNCHANGED <<lk_table, lk_queries>>
    /\ OthersUnchanged

\* tokio::time::sleep between two attempts
Sleep(c) ==
    /\ lk[c].pc = "sleep"
    /\ \E t \in SleepTo(lk[c].elapsed, Pause(lk[c].mode)) :
          lk' = [lk EXCEPT ![c].pc = "try", ![c].elapsed = t,
                              ![c].slept = Pause(lk[c].mode)]
    /\ UNCHANGED <<lk_table, lk_queries>>
    /\ OthersUnchanged

\* Client::execute(self, query) is sent
SendStatement(c) ==
    /\ lk[c].pc = "run" /\ lk[c].todo # <<>>
    /\ lk' = [lk EXCEPT ![c].pc = "await", ![c].in_flight = TRUE]
    /\ UNCHANGED <<lk_table, lk_queries>>
    /\ OthersUnchanged

\* the handle goes out of scope
Dropped(cl) ==
    [cl EXCEPT !.handle = "dropped",
               !.task = IF DropSpawns(cl.handle) THEN "spawned" ELSE cl.task]

\* the statement has been answered: the next one, or `?` returns the error
AfterStatement(cl, ok) ==
    IF StatementStops(ok)
    THEN Dropped([cl EXCEPT !.pc = "returned", !.result = "Err", !.in_flight = FALSE,
                            !.sent = Append(cl.sent, [stmt |-> Head(cl.todo), ok |-> ok])])
    ELSE [cl EXCEPT !.pc = "run", !.in_flight = FALSE, !.todo = Tail(cl.todo),
                    !.sent = Append(cl.sent, [stmt |-> Head(cl.todo), ok |-> ok])]

StatementDone(c) ==
    /\ lk[c].pc = "await"
    /\ \E ok \in BOOLEAN : lk' = [lk EXCEPT ![c] = AfterStatement(lk[c], ok)]
    /\ UNCHANGED <<lk_table, lk_queries>>
    /\ OthersUnchanged

\* handle.unlock(): lock.take() and reset() inline, DROP TABLE at the server
Unlock(c) ==
    /\ \/ lk[c].pc = "run" /\ lk[c].todo = <<>>
       \/ lk[c].pc = "holding"
    /\ \E ok \in BOOLEAN :
          /\ lk_table' = (lk_table /\ ~ok)
          /\ lk' = [lk EXCEPT ![c].pc = "unlocked", ![c].handle = "taken",
                              ![c].drops = lk[c].drops + 1,
                              ![c].reply = IF ok THEN "ok" ELSE "error"]
    /\ UNCHANGED lk_queries
    /\ OthersUnchanged

\* unlock() returns, its self is dropped; execute returns Ok(queries.len())
UnlockReturn(c) ==
    /\ lk[c].pc = "unlocked"
    /\ lk' = [lk EXCEPT ![c] =
                 Dropped([lk[c] EXCEPT !.pc = "returned",
                                       !.result = IF lk[c].reply = "ok" THEN "Ok" ELSE "Err",
                                       !.n = IF lk[c].reply = "ok" THEN Len(lk_queries) ELSE -1])]
    /\ UNCHANGED <<lk_table, lk_queries>>
    /\ OthersUnchanged

\* the holder of a handle from lock() or try_lock() lets it go out of scope
DropHandleNoUnlock(c) ==
    /\ lk[c].pc = "holding"
    /\ lk' = [lk EXCEPT ![c] = Dropped([lk[c] EXCEPT !.pc = "returned", !.result = "Ok"])]
    /\ UNCHANGED <<lk_table, lk_queries>>
    /\ OthersUnchanged

\* the detached task of Drop runs lock.reset(): DROP TABLE at the server
ResetTask(c) ==
    /\ lk[c].task = "spawned"
    /\ \E ok \in BOOLEAN :
          /\ lk_table' = (lk_table /\ ~ok)
          /\ lk' = [lk EXCEPT ![c].task = "ran", ![c].drops = lk[c].drops + 1]
    /\ UNCHANGED lk_queries
    /\ OthersUnchanged

LockNext ==
    \E c \in Clients :
        \/ Start(c) \/ CreateTable(c) \/ TryLockReturn(c) \/ Sleep(c)
        \/ SendStatement(c) \/ StatementDone(c)
        \/ Unlock(c) \/ UnlockReturn(c) \/ DropHandleNoUnlock(c) \/ ResetTask(c)

\* ------------------------------------------------------------------------
\* LZ4 blocks: compress_block and decompress_block (compression.rs)
\* ------------------------------------------------------------------------

\* the bytes that extend a length nibble of 15
RECURSIVE Lz4ExtBytes(_)
Lz4ExtBytes(n) == IF n >= 255 THEN <<255>> \o Lz4ExtBytes(n - 255) ELSE <<n>>

Lz4Nibble(n) == IF n >= 15 THEN 15 ELSE n
Lz4Ext(n) == IF n >= 15 THEN Lz4ExtBytes(n - 15) ELSE <<>>

\* a sequence: token, literals, offset of the match, its length less 4
Lz4Sequence(literals, offset, mlen) ==
    <<16 * Lz4Nibble(Len(literals)) + Lz4Nibble(mlen - 4)>>
      \o Lz4Ext(Len(literals)) \o literals
      \o <<offset % 256, offset \div 256>> \o Lz4Ext(mlen - 4)

\* the sequence that ends a block: literals only
Lz4LastLiterals(literals) ==
    <<16 * Lz4Nibble(Len(literals))>> \o Lz4Ext(Len(literals)) \o literals

\* the bytes from ref on that repeat from ip on, the match ending 5 bytes
\* before the end of the input at the latest
RECURSIVE Lz4MatchLen(_, _, _, _)
Lz4MatchLen(b, ref, ip, k) ==
    IF ip + k <= Len(b) - 5 /\ b[ref + k] = b[ip + k]
    THEN Lz4MatchLen(b, ref, ip, k + 1) ELSE k

\* The match finder of the compressor is a hash table whose hits depend on
\* collisions and on the acceleration; `how` is which of the earlier
\* occurrences it hits (the nearest, the farthest), whether it extends the
\* match beyond 4 bytes, or that it hits none. No match is sought at the first
\* byte nor in the last 12 bytes.
Lz4Finders == {"nearest", "farthest", "short", "literals"}

RECURSIVE Lz4EncodeFrom(_, _, _, _)
Lz4EncodeFrom(b, anchor, ip, how) ==
    IF ip > Len(b) - 11 THEN Lz4LastLiterals(SubSeq(b, anchor, Len(b)))
    ELSE LET refs == {r \in 1..(ip - 1) : SubSeq(b, r, r + 3) = SubSeq(b, ip, ip + 3)}
         IN IF how = "literals" \/ refs = {} THEN Lz4EncodeFrom(b, anchor, ip + 1, how)
            ELSE LET ref  == IF how = "farthest"
                             THEN CHOOSE r \in refs : \A q \in refs : r <= q
                             ELSE CHOOSE r \in refs : \A q \in refs : q <= r
                     mlen == IF how = "short" THEN 4 ELSE Lz4MatchLen(b, ref, ip, 0)
                 IN Lz4Sequence(SubSeq(b, anchor, ip - 1), ip - ref, mlen)
                      \o Lz4EncodeFrom(b, ip + mlen, ip + mlen, how)

\* LZ4_compress_default(src, dst, srcSize, dstCapacity): the bytes written to
\* dst, none when they would not fit. Inputs of less than 13 bytes are
\* written as literals.
LZ4_compress_default(src, cap, how) ==
    LET out == IF Len(src) < 13 THEN Lz4LastLiterals(src) ELSE Lz4EncodeFrom(src, 1, 2, how)
    IN IF Len(out) > cap THEN <<>> ELSE out

\* compress_block once block.write has produced raw
compress_block(raw, how) ==
    IF Len(raw) > I32Max
    THEN Result(FALSE, <<>>, KErr("CompressionError", "input too large for LZ4"))
    ELSE LET capacity == Len(raw) + (Len(raw) \div 255) + 16 + 1
             out == LZ4_compress_default(raw, capacity, how)
         IN IF Len(out) <= 0
            THEN Result(FALSE, <<>>, KErr("CompressionError", "LZ4 compression failed"))
            ELSE IF Len(out) > capacity
            THEN Result(FALSE, <<>>, KErr("CompressionError", "exceeded buffer capacity"))
            ELSE Result(TRUE, out, NoErr)

\* the longest run of one byte given to the compressor
MaxRun == 26

Run(byte, n) == [i \in 1..n |-> byte]
Distinct(n) == [i \in 1..n |-> i]
Periodic(n, period) == [i \in 1..n |-> 65 + ((i - 1) % period)]

\* "Hello, ClickHouse! This is a test of LZ4 compression roundtrip."
TestOriginal ==
    <<72, 101, 108, 108, 111, 44, 32, 67, 108, 105, 99, 107, 72, 111, 117, 115, 101, 33,
      32, 84, 104, 105, 115, 32, 105, 115, 32, 97, 32, 116, 101, 115, 116, 32, 111, 102,
      32, 76, 90, 52, 32, 99, 111, 109, 112, 114, 101, 115, 115, 105, 111, 110, 32, 114,
      111, 117, 110, 100, 116, 114, 105, 112, 46>>

\* the byte strings compressed: none, one and two bytes; 12 and 16 bytes
\* without a repetition; runs of one byte; a period of 4 and one of 7; the
\* text of the round trip test
RawInputs ==
    {<<>>, <<65>>, <<65, 66>>, Distinct(12), Distinct(16), Run(65, 13), Run(65, MaxRun),
     Periodic(20, 4), Periodic(MaxRun + 4, 7), TestOriginal}

\* the garbage of test_decompress_invalid_data_returns_error
Garbage == <<222, 173, 190, 239, 1, 2, 3, 4>>

\* byte strings that are no LZ4 block: no byte at all; the garbage; three
\* literals announced and one present; a literal length without its
\* extension; a match at offset 0; a match reaching before the start of the
\* output; a block that ends with a match
InvalidBlocks ==
    {<<>>, Garbage, <<48, 65>>, <<240>>,
     <<16, 65, 0, 0, 80, 1, 2, 3, 4, 5>>,
     <<16, 65, 2, 0, 80, 1, 2, 3, 4, 5>>,
     <<16, 65, 1, 0>>}

U32OfInt(n) == U32OfLE(LEOfInt(n))

\* the sizes declared with them
InvalidSizes == {U32OfInt(0), U32OfInt(1), U32OfInt(100)}

\* decompressed sizes around the sign bit of i32 and the end of u32:
\* 0, 1, 3, 2^31 - 2, 2^31 - 1, 2^31, 2^32 - 2, 2^32 - 1
SizeCases ==
    {U32OfLE(s) : s \in {<<0, 0, 0, 0>>, <<1, 0, 0, 0>>, <<3, 0, 0, 0>>,
                         <<254, 255, 255, 127>>, <<255, 255, 255, 127>>, <<0, 0, 0, 128>>,
                         <<254, 255, 255, 255>>, <<255, 255, 255, 255>>}}

\* what a decoder may return for a destination of decompressed_size + 1 bytes:
\* the ends of i32, the values around 0 and those around the capacity
DecoderReturns(usize) ==
    {-I32Max - 1, -1, 0, 1, 2, I32Max}
      \cup (IF U32Small(usize) /\ U32Val(usize) < I32Max - 1
            THEN {U32Val(usize), U32Val(usize) + 1, U32Val(usize) + 2} ELSE {})

\* a result and the length of its vector
BlockResult(ok, len, value, err) == [ok |-> ok, len |-> len, value |-> value, err |-> err]
NoBlockResult == BlockResult(FALSE, 0, <<>>, NoErr)
OfResult(r) == BlockResult(r.ok, Len(r.value), r.value, r.err)

\* decompress_block after a decoder has returned out_len, whatever it wrote:
\* the vector's length is set to out_len
DecompressCheckedLen(out_len, usize) ==
    IF OutLenError(out_len, usize) # "none"
    THEN BlockResult(FALSE, 0, <<>>, KErr("CompressionError", OutLenError(out_len, usize)))
    ELSE BlockResult(TRUE, out_len, <<>>, NoErr)

NoReturn == [len |-> 0, out |-> <<>>]

BlkIdle ==
    /\ blk_kind = "none"
    /\ blk_pc = "idle"
    /\ blk_raw = <<>>
    /\ blk_data = <<>>
    /\ blk_size = U32OfInt(0)
    /\ blk_cap = 0
    /\ blk_ret = NoReturn
    /\ blk_res = NoBlockResult

\* a byte string to compress, a byte string that is no block with a declared
\* size, or a declared size for a decoder that may return anything
BlkInit ==
    /\ \/ /\ blk_kind = "roundtrip" /\ blk_pc = "raw"
          /\ blk_raw \in RawInputs /\ blk_data = <<>> /\ blk_size = U32OfInt(0)
       \/ /\ blk_kind = "invalid" /\ blk_pc = "data"
          /\ blk_raw = <<>> /\ blk_data \in InvalidBlocks /\ blk_size \in InvalidSizes
       \/ /\ blk_kind = "any_return" /\ blk_pc = "data"
          /\ blk_raw = <<>> /\ blk_data = <<0>> /\ blk_size \in SizeCases
    /\ blk_cap = 0
    /\ blk_ret = NoReturn
    /\ blk_res = NoBlockResult

BlkOthersUnchanged ==
    UNCHANGED <<viVars, strVars, colVars, tyVars, frVars, muxVars, errVars, lockVars, bdVars>>

\* the bytes are compressed as compress_block and the round trip test do, and
\* their number is what the frame declares
CompressDefault ==
    /\ blk_pc = "raw"
    /\ \E how \in Lz4Finders :
          \E c \in {compress_block(blk_raw, how)} :
             /\ c.ok
             /\ blk_data' = c.value
    /\ blk_size' = U32OfInt(Len(blk_raw))
    /\ blk_pc' = "data"
    /\ UNCHANGED <<blk_kind, blk_raw, blk_cap, blk_ret, blk_res>>
    /\ BlkOthersUnchanged

\* decompress_block(blk_data, blk_size), with what it passed to the decoder
\* and what the decoder returned
DecompressBlock ==
    /\ blk_pc = "data"
    /\ blk_kind \in {"roundtrip", "invalid"}
    /\ blk_cap' = CapacityAsI32(blk_size)
    /\ blk_ret' = LZ4_decompress_safe(blk_data, CapacityAsI32(blk_size))
    /\ blk_res' = OfResult(decompress_block(blk_data, blk_size))
    /\ blk_pc' = "done"
    /\ UNCHANGED <<blk_kind, blk_raw, blk_data, blk_size>>
    /\ BlkOthersUnchanged

\* decompress_block with a decoder that returns any i32
DecompressAnyReturn ==
    /\ blk_pc = "data"
    /\ blk_kind = "any_return"
    /\ blk_cap' = CapacityAsI32(blk_size)
    /\ \E out_len \in DecoderReturns(blk_size) :
          /\ blk_ret' = [len |-> out_len, out |-> <<>>]
          /\ blk_res' = DecompressCheckedLen(out_len, blk_size)
    /\ blk_pc' = "done"
    /\ UNCHANGED <<blk_kind, blk_raw, blk_data, blk_size>>
    /\ BlkOthersUnchanged

BlockNext == CompressDefault \/ DecompressBlock \/ DecompressAnyReturn

\* ------------------------------------------------------------------------
\* BigDecimal conversions (values/bigdecimal.rs)
\* ------------------------------------------------------------------------

\* a BigDecimal: the number int_val * 10^(-scale)
BigDec(int_val, scale) == [int_val |-> int_val, scale |-> scale]

RECURSIVE Pow10(_)
Pow10(n) == IF n = 0 THEN 1 ELSE 10 * Pow10(n - 1)

\* division that rounds towards zero
TruncDiv(a, p) == IF a < 0 THEN -((-a) \div p) ELSE a \div p

\* BigDecimal::with_scale(0).int_val: the integer part, for a scale >= 0
IntegerPart(x) == TruncDiv(x.int_val, Pow10(x.scale))

\* BigDecimal::fractional_digit_count
fractional_digit_count(x) == x.scale

\* the integers of the model are below 2^31 in absolute value: the tests of
\* the types of 32 bits and more are those on the sign
IntFits(kind, v) ==
    CASE kind = "Int8"   -> -128 <= v /\ v <= 127
      [] kind = "UInt8"  -> 0 <= v /\ v <= 255
      [] kind = "Int16"  -> -32768 <= v /\ v <= 32767
      [] kind = "UInt16" -> 0 <= v /\ v <= 65535
      [] kind \in {"Int32", "Int64", "Int128"} -> TRUE
      [] kind \in {"UInt32", "UInt64", "UInt128"} -> 0 <= v

\* to_i8 .. to_u128 of ToPrimitive: the integer part, if the type holds it
ToPrimitive(x, kind) ==
    IF IntFits(kind, IntegerPart(x)) THEN [some |-> TRUE, val |-> IntegerPart(x)]
    ELSE [some |-> FALSE, val |-> 0]

\* a Value: for a decimal its scale and underlying integer, for an integer
\* the integer
SqlValue(kind, precision, val) == [kind |-> kind, precision |-> precision, val |-> val]
NoSqlValue == SqlValue("none", 0, 0)

DecimalKinds == {"Decimal32", "Decimal64", "Decimal128"}
IntKinds == {"Int8", "UInt8", "Int16", "UInt16", "Int32", "UInt32", "Int64", "UInt64",
             "Int128", "UInt128"}

\* the integer behind a decimal of a kind
Underlying(kind) ==
    CASE kind = "Decimal32" -> "Int32" [] kind = "Decimal64" -> "Int64"
      [] kind = "Decimal128" -> "Int128"

Hint(kind, precision) == [kind |-> kind, precision |-> precision]
NoHint == Hint("None", 0)

out_of_range(name) == KErr("SerializeError", name \o " out of bounds for rust_decimal")

Converted(ok, value, err) == [ok |-> ok, value |-> value, err |-> err]
NotConverted == Converted(FALSE, NoSqlValue, NoErr)

\* <BigDecimal as ToSql>::to_sql(self, type_hint)
to_sql(x, hint) ==
    CASE hint.kind = "None" ->
           IF IntegerPart(x) * Pow10(x.scale) # x.int_val
           THEN Converted(FALSE, NoSqlValue, out_of_range("Decimal128"))
           ELSE IF ToPrimitive(x, "Int128").some
           THEN Converted(TRUE, SqlValue("Decimal128", fractional_digit_count(x),
                                         ToPrimitive(x, "Int128").val), NoErr)
           ELSE Converted(FALSE, NoSqlValue, out_of_range("Decimal128"))
      [] hint.kind \in DecimalKinds /\ hint.precision >= fractional_digit_count(x) ->
           IF ToPrimitive(x, Underlying(hint.kind)).some
           THEN Converted(TRUE, SqlValue(hint.kind, hint.precision,
                                         ToPrimitive(x, Underlying(hint.kind)).val), NoErr)
           ELSE Converted(FALSE, NoSqlValue, out_of_range(hint.kind))
      [] hint.kind \in IntKinds ->
           IF ToPrimitive(x, hint.kind).some
           THEN Converted(TRUE, SqlValue(hint.kind, 0, ToPrimitive(x, hint.kind).val), NoErr)
           ELSE Converted(FALSE, NoSqlValue, out_of_range(hint.kind))
      [] OTHER -> Converted(FALSE, NoSqlValue, KErr("SerializeError", "unexpected type"))

Restored(ok, value, err) == [ok |-> ok, value |-> value, err |-> err]
NotRestored == Restored(FALSE, BigDec(0, 0), NoErr)

\* <BigDecimal as FromSql>::from_sql(type_, value)
from_sql(value) ==
    IF value.kind \in IntKinds THEN Restored(TRUE, BigDec(value.val, 0), NoErr)
    ELSE IF value.kind \in DecimalKinds
    THEN Restored(TRUE, BigDec(value.val, value.precision), NoErr)
    ELSE Restored(FALSE, BigDec(0, 0), KErr("UnexpectedType", value.kind))

\* the scales of the values and of the columns
MaxScale == 2

\* the digits of the values: those of the tests (1234, 123456, 200, 255) and
\* those at the ends of the 8- and 16-bit integers
IntVals == {-32769, -32768, -1234, -129, -128, -1, 0, 5, 127, 128, 200, 255, 256, 1234,
            32767, 32768, 65535, 65536, 123456}

Hints ==
    {NoHint, Hint("String", 0)}
      \cup {Hint(k, s) : k \in DecimalKinds, s \in 0..MaxScale}
      \cup {Hint(k, 0) : k \in IntKinds}

BdIdle ==
    /\ bd_pc = "idle"
    /\ bd_x = BigDec(0, 0)
    /\ bd_hint = NoHint
    /\ bd_value = NotConverted
    /\ bd_back = NotRestored

BdInit ==
    /\ bd_pc = "to_sql"
    /\ bd_x \in {BigDec(i, s) : i \in IntVals, s \in 0..MaxScale}
    /\ bd_hint \in Hints
    /\ bd_value = NotConverted
    /\ bd_back = NotRestored

BdOthersUnchanged ==
    UNCHANGED <<viVars, strVars, colVars, tyVars, frVars, muxVars, errVars, lockVars, blkVars>>

\* bd_x.to_sql(bd_hint)
ToSql ==
    /\ bd_pc = "to_sql"
    /\ bd_value' = to_sql(bd_x, bd_hint)
    /\ bd_pc' = IF to_sql(bd_x, bd_hint).ok THEN "from_sql" ELSE "done"
    /\ UNCHANGED <<bd_x, bd_hint, bd_back>>
    /\ BdOthersUnchanged

\* BigDecimal::from_sql of the value to_sql returned
FromSql ==
    /\ bd_pc = "from_sql"
    /\ bd_back' = from_sql(bd_value.value)
    /\ bd_pc' = "done"
    /\ UNCHANGED <<bd_x, bd_hint, bd_value>>
    /\ BdOthersUnchanged

\* the conversions of single values, not in use
ExtIdle == BlkIdle /\ BdIdle

\* the parts around the protocol core, not in use
ClIdle == ErrIdle /\ LockIdle /\ ExtIdle

\* the protocol core, not in use
CoreIdle == ViIdle /\ StrIdle /\ ColIdle /\ TyIdle /\ FrIdle /\ MuxInit

\* ------------------------------------------------------------------------
\* Specifications
\* ------------------------------------------------------------------------

\* the session multiplexer: a session after the handshake, nothing else in use
Init == MuxInit /\ ViIdle /\ StrIdle /\ ColIdle /\ TyIdle /\ FrIdle /\ ClIdle
Spec == Init /\ [][MuxNext]_vars

\* VarInt I/O
InitVarInt == ViInit /\ StrIdle /\ ColIdle /\ TyIdle /\ FrIdle /\ MuxInit /\ ClIdle
SpecVarInt == InitVarInt /\ [][WriteVarUint \/ ReadVarUint]_vars

\* length-prefixed strings
InitString == StrInit /\ ViIdle /\ ColIdle /\ TyIdle /\ FrIdle /\ MuxInit /\ ClIdle
SpecString == InitString /\ [][WriteString \/ ReadString]_vars

\* the column codec
InitColumn == ColInit /\ ViIdle /\ StrIdle /\ TyIdle /\ FrIdle /\ MuxInit /\ ClIdle
SpecColumn == InitColumn /\ [][SerializeColumn \/ DeserializeColumn \/ NullableWrite]_vars

\* the type grammar
InitType == TyInit /\ ViIdle /\ StrIdle /\ ColIdle /\ FrIdle /\ MuxInit /\ ClIdle
SpecType == InitType /\ [][Display \/ Parse]_vars

\* error annotation
InitError == ErrInit /\ LockIdle /\ ExtIdle /\ CoreIdle
SpecError == InitError /\ [][WithColumnName]_vars

\* ClickhouseLock and the migration execute of two clients
InitLock == LockInit /\ ErrIdle /\ ExtIdle /\ CoreIdle
SpecLock == InitLock /\ [][LockNext]_vars

\* the same while the runtime runs: a spawned task is run in the end
SpecLockFair == SpecLock /\ \A c \in Clients : WF_vars(ResetTask(c))

\* the compression envelope read through DecompressionReader
\* LZ4 blocks
InitBlock == BlkInit /\ BdIdle /\ ErrIdle /\ LockIdle /\ CoreIdle
SpecBlock == InitBlock /\ [][BlockNext]_vars

\* BigDecimal conversions
InitDecimal == BdInit /\ BlkIdle /\ ErrIdle /\ LockIdle /\ CoreIdle
SpecDecimal == InitDecimal /\ [][ToSql \/ FromSql]_vars

InitFrame == FrInit /\ ViIdle /\ StrIdle /\ ColIdle /\ TyIdle /\ MuxInit /\ ClIdle
SpecFrame == InitFrame /\ [][PollRead]_vars

\* ------------------------------------------------------------------------
\* Claims
\* ------------------------------------------------------------------------

\* ---- session multiplexer ----

IsPrefix(s, t) == Len(s) <= Len(t) /\ SubSeq(t, 1, Len(s)) = s

\* the queries submitted before q
Before(q) == {submitted[i] : i \in {j \in 1..Len(submitted) : \E k \in (j + 1)..Len(submitted) : submitted[k] = q}}

\* what request q has been handed: the blocks taken, those in its channel,
\* and the block the multiplexer is about to send into it
Handed(q) == received[q] \o chan[q] \o (IF current = q /\ pending # NoPacket THEN <<pending>> ELSE <<>>)

\* every block handed to a request is one the server sent for that query
OwnPacketsOnly == \A q \in Queries : \A i \in 1..Len(Handed(q)) : Handed(q)[i].q = q

\* C1: on one session the queries run strictly serially in submission order:
\* at most one is in flight, the Query packets are written in the order of
\* submission, a query is handed no packet before every query submitted
\* earlier has produced EndOfStream or Exception, a request is only handed
\* packets of its own query, and a request that ends cleanly has received the
\* complete result.
C1_StrictlySerial ==
    /\ Cardinality(InFlight) <= 1
    /\ IsPrefix(started, submitted)
    /\ \A q \in Queries : Handed(q) # <<>> => Before(q) \subseteq finished
    /\ OwnPacketsOnly
    /\ \A q \in Queries : caller[q] = "eos" => received[q] = srv_log[q]

\* two queries were served one after the other and each got its two blocks
C1_Witness ==
    /\ submitted = <<1, 2>>
    /\ started = <<1, 2>>
    /\ \A q \in {1, 2} : caller[q] = "eos" /\ Len(received[q]) = 2 /\ received[q] = srv_log[q]

\* C2: an I/O error closes the session for good: is_closed() is true exactly
\* when an I/O error has occurred and never becomes false again; at the error
\* the channel of every request in flight or queued is closed with a
\* connection error, nothing is queued or served afterwards, and a
\* submission made afterwards fails at once with a connection error.
C2_ClosedIsTerminal ==
    /\ [](is_closed <=> io_failed)
    /\ [](is_closed => /\ queue = <<>> /\ current = NoQuery
                       /\ \A q \in Queries : caller[q] = "held" => chan_end[q] # "open")
    /\ [][is_closed => is_closed']_vars
    /\ [][\A q \in Queries :
            /\ (~closed /\ closed' /\ chan_end[q] = "open" /\ (q = current \/ q \in Range(queue)))
                  => chan_end'[q] = "ConnectionError"
            /\ (closed /\ caller[q] = "new" /\ caller'[q] # "new")
                  => caller'[q] = "ConnectionError"
            /\ (closed /\ chan_end[q] = "ConnectionError") => chan_end'[q] = "ConnectionError"]_vars

\* the session is closed; the request in flight ended with the connection
\* error and so did a submission made after the error
C2_Witness ==
    /\ is_closed
    /\ started = <<1>> /\ finished = {} /\ caller[1] = "ConnectionError"
    /\ submitted = <<1>> /\ caller[2] = "ConnectionError"

\* C3: when the handle of the query being served is dropped, a Cancel packet
\* is written and the query stays the one being served, its packets read and
\* discarded, until EndOfStream or Exception is read (or the socket fails):
\* no other query is started before that and no discarded packet is handed to
\* another request.
C3_CancelDrains ==
    /\ [](phase = "draining" => current \in cancelled /\ caller[current] = "dropped")
    /\ [](\A q \in cancelled : (q \notin finished /\ ~closed) =>
              current = q /\ started[Len(started)] = q /\ chan[q] = <<>>)
    /\ []OwnPacketsOnly
    /\ [][\A q \in Queries :
            /\ (q \in cancelled' /\ q \notin cancelled)
                  => /\ upstream' = Append(upstream, Packet("Cancel", q, 0))
                     /\ current = q /\ current' = q
            /\ (current = q /\ caller[q] = "dropped" /\ current' # q)
                  => (q \in finished' \/ closed')
            /\ (current = q /\ caller[q] = "dropped" /\ phase = "serving" /\ ~closed')
                  => (downstream' = downstream \/ Len(downstream') > Len(downstream))]_vars

\* a cancelled query was drained to its end and the next one served in full
C3_Witness ==
    /\ started = <<1, 2>>
    /\ 1 \in cancelled /\ 1 \in finished /\ Len(srv_log[1]) = 2 /\ received[1] = <<>>
    /\ caller[2] = "eos" /\ Len(received[2]) = 2

RECURSIVE DataOf(_, _)
DataOf(q, s) ==
    IF s = <<>> THEN <<>>
    ELSE (IF Head(s).type = "Data" /\ Head(s).q = q THEN <<Head(s)>> ELSE <<>>)
            \o DataOf(q, Tail(s))

\* the multiplexer holds a block and the channel it is for is full
BlockedOnSend ==
    /\ pending # NoPacket
    /\ caller[current] = "held"
    /\ Len(chan[current]) >= ChanCap

FitsI64(v) == (U64Width - 1) \notin v

\* C10: for every u64 n <= 2^63 - 1, write_var_uint(n) emits at most 9 bytes
\* and read_var_uint on those bytes returns n, having consumed exactly the
\* bytes written (whatever follows them in the stream).
C10_VarUintRoundTrip ==
    (vi_pc = "done" /\ FitsI64(vi_value)) =>
        /\ vi_written <= 9
        /\ vi_res.ok
        /\ vi_res.value = vi_value
        /\ vi_res.pos = vi_written

\* 2^63 - 1 was written in nine bytes and read back, a trailer following it
C10_Witness ==
    /\ vi_pc = "done"
    /\ vi_value = 0..62
    /\ vi_written = 9
    /\ Len(vi_wire) = 10
    /\ vi_res.ok /\ vi_res.value = vi_value /\ vi_res.pos = 9

\* the stream starts with nine bytes that all carry the continuation bit
Unterminated(data) ==
    /\ Len(data) >= ReadMaxOctets
    /\ \A i \in 1..ReadMaxOctets : 7 \in BitsOfByte(data[i])

\* C11: read_var_uint reads at most 9 bytes, and a varint whose ninth byte
\* still has the continuation bit 0x80 set is a protocol error, not a
\* returned value.
C11_UnterminatedIsProtocolError ==
    vi_pc = "done" =>
        /\ vi_res.pos <= ReadMaxOctets
        /\ Unterminated(vi_wire) => (~vi_res.ok /\ vi_res.err = "ProtocolError")

\* ---- length-prefixed strings ----

\* the length the stream declares, as read_var_uint reads it
DeclaredLen == read_var_uint(Peek(st_wire), 0)

\* C12: read_string on a declared length L > MAX_STRING_SIZE fails with a
\* ProtocolError, having allocated nothing and read no byte after the length;
\* for L <= MAX_STRING_SIZE it reads exactly L bytes (or fails with the I/O
\* error of a stream that ends before them).
C12_StringBoundary ==
    (st_pc \in {"done", "done_peer"} /\ DeclaredLen.ok) =>
        IF U64Gt(DeclaredLen.value, MAX_STRING_SIZE)
        THEN /\ ~st_res.ok
             /\ st_res.err = "ProtocolError"
             /\ st_res.allocated = 0
             /\ st_res.pos = DeclaredLen.pos
        ELSE IF BLen(st_wire) - DeclaredLen.pos >= U64ToInt(DeclaredLen.value)
             THEN /\ st_res.ok
                  /\ BLen(st_res.value) = U64ToInt(DeclaredLen.value)
                  /\ st_res.pos = DeclaredLen.pos + U64ToInt(DeclaredLen.value)
             ELSE /\ ~st_res.ok
                  /\ st_res.err = "Io:UnexpectedEof"

\* a stream declaring 2^30 + 1 bytes, and holding them, was rejected
C12_Witness ==
    /\ st_pc = "done_peer"
    /\ DeclaredLen.ok /\ DeclaredLen.value = {0, 30}
    /\ BLen(st_wire) = DeclaredLen.pos + MAX_STRING_SIZE + 1
    /\ st_res.err = "ProtocolError" /\ st_res.allocated = 0 /\ st_res.pos = 5

\* C13: for every byte string s of length at most MAX_STRING_SIZE, the empty
\* string included, read_string on the output of write_string(s) returns s
\* and consumes exactly the bytes written.
C13_StringRoundTrip ==
    (st_pc = "done" /\ BLen(st_value) <= MAX_STRING_SIZE) =>
        /\ st_res.ok
        /\ st_res.value = st_value
        /\ st_res.pos = st_written

\* a string of MAX_STRING_SIZE bytes was written and read back
C13_Witness ==
    /\ st_pc = "done"
    /\ st_res.ok /\ st_res.value = st_value /\ st_res.pos = st_written
    /\ BLen(st_value) = MAX_STRING_SIZE
    /\ st_value.lit = <<65>>

\* ---- column codec ----

\* a value that the type holds: a FixedString(n) of at most n bytes, Null
\* only under Nullable
RECURSIVE WellTyped(_, _)
WellTyped(type, value) ==
    CASE type.t = "UInt8"          -> value.k = "UInt8"
      [] type.t = "UInt32"         -> value.k = "UInt32"
      [] type.t = "String"         -> value.k = "String"
      [] type.t = "FixedString"    -> value.k = "String" /\ Len(value.v) <= type.n
      [] type.t = "Nullable"       -> IsNull(value) \/ WellTyped(type.inner, value)
      [] type.t = "Array"          ->
            value.k = "Array" /\ \A i \in 1..Len(value.v) : WellTyped(type.inner, value.v[i])
      [] type.t = "LowCardinality" -> WellTyped(type.inner, value)

WellTypedColumn == \A i \in 1..Len(col_values) : WellTyped(col_type, col_values[i])

\* the positions of a column that hold Null
NullPositions(values) == {i \in 1..Len(values) : IsNull(values[i])}

C15_NullableWrite ==
    col_pc = "written" =>
        IF col_type.t = "Nullable"
        THEN \E n \in {Len(col_values)} :
             \E inner_col \in {serialize_column(col_type.inner, col_values)} :
                /\ col_wire.ok = inner_col.ok
                /\ Len(col_wire.bytes) = n + Len(inner_col.bytes)
                /\ \A i \in 1..n :
                      col_wire.bytes[i] = (IF IsNull(col_values[i]) THEN 1 ELSE 0)
                /\ SubSeq(col_wire.bytes, n + 1, Len(col_wire.bytes)) = inner_col.bytes
                /\ inner_col.ok =>
                      \E back \in {deserialize_column(col_type.inner, col_wire.bytes, n, n)} :
                         /\ back.ok
                         /\ Len(back.values) = n
                         /\ back.pos = Len(col_wire.bytes)
        ELSE /\ ~col_wire.ok
             /\ col_wire.err = "ProtocolError"
             /\ col_wire.bytes = <<>>

\* Nullable(UInt32) with a Null between two numbers: three mask bytes and
\* three elements of four bytes
C15_Witness ==
    /\ col_pc = "written"
    /\ col_type = Type_Nullable(Type_UInt32)
    /\ col_values = <<U32(35), Value_Null, U32(0)>>
    /\ col_wire.ok
    /\ col_wire.bytes = <<0, 1, 0, 35, 0, 0, 0, 0, 0, 0, 0, 0, 0, 0, 0>>

\* NullableSerializer::write was handed a type that is not Nullable
C15_WitnessNotNullable ==
    /\ col_pc = "written"
    /\ col_type = Type_UInt32
    /\ col_values # <<>>
    /\ col_wire.err = "ProtocolError"

\* the column has been written
ColumnWritten == col_pc \in {"deserialize", "done"}

\* roundtrip_array: [ [], [0], [1, 2, 3] ]
ArrayExample == <<Arr(<<>>), Arr(<<U32(0)>>), Arr(<<U32(1), U32(2), U32(3)>>)>>

\* the offsets 0, 1, 4 and the inner column 0, 1, 2, 3
ArrayExampleBytes ==
    <<0, 0, 0, 0, 0, 0, 0, 0,  1, 0, 0, 0, 0, 0, 0, 0,  4, 0, 0, 0, 0, 0, 0, 0,
      0, 0, 0, 0,  1, 0, 0, 0,  2, 0, 0, 0,  3, 0, 0, 0>>

\* C16: Array(T) is encoded as one u64 cumulative offset per element, counting
\* immediate inner elements, followed by the inner column at the flattened
\* length, so the last offset is the flattened length; [ [], [0], [1,2,3] ]
\* as Array(UInt32) gives the offsets 0, 1, 4 and the inner column 0, 1, 2, 3;
\* the column decodes to the original, nested and empty arrays included.
C16_ArrayOffsets ==
    (ColumnWritten /\ col_type.t = "Array" /\ WellTypedColumn) =>
        \E n \in {Len(col_values)} :
        \E offs \in {ReadU64s(col_wire.bytes, Len(serialize_prefix(col_type)), n)} :
            /\ col_wire.ok
            /\ offs.ok
            /\ \A i \in 1..n :
                  offs.values[i] =
                      (IF i = 1 THEN 0 ELSE offs.values[i - 1]) + Len(col_values[i].v)
            /\ n > 0 => offs.values[n] = Len(Flatten(col_values))
            /\ SubSeq(col_wire.bytes, offs.pos + 1, Len(col_wire.bytes))
                  = serialize_column(col_type.inner, Flatten(col_values)).bytes
            /\ (col_type = Type_Array(Type_UInt32) /\ col_values = ArrayExample)
                  => col_wire.bytes = ArrayExampleBytes
            /\ col_pc = "done" => (col_res.ok /\ col_res.values = col_values)

\* a column of nested arrays, one of them holding an empty array, was
\* written with the offsets 2, 3 and read back
C16_Witness ==
    /\ col_pc = "done"
    /\ col_type = Type_Array(Type_Array(Type_UInt32))
    /\ col_values = <<Arr(<<Arr(<<>>), Arr(<<U32(4), U32(5)>>)>>), Arr(<<Arr(<<U32(1)>>)>>)>>
    /\ SubSeq(col_wire.bytes, 1, 16) = <<2, 0, 0, 0, 0, 0, 0, 0,  3, 0, 0, 0, 0, 0, 0, 0>>
    /\ col_res.ok /\ col_res.values = col_values

\* the dictionary and the indices found in a written LowCardinality column:
\* after the version, the flags and index_size, the dictionary, row_count
LcParsed(dict, rows, n) ==
    [ok      |-> dict.ok /\ rows.ok,
     dict    |-> dict.values,
     rows    |-> IF rows.ok THEN rows.values[1] ELSE 0,
     indices |-> IF rows.ok THEN ReadU8s(col_wire.bytes, rows.pos, n).values ELSE <<>>,
     end     |-> IF rows.ok THEN rows.pos + n ELSE 0]

LcParsedDict(dict, n) ==
    LcParsed(dict, IF dict.ok THEN ReadU64s(col_wire.bytes, dict.pos, 1) ELSE dict, n)

LcParse(head, n) ==
    LcParsedDict(IF head.ok
                 THEN deserialize_column(LcDictType(col_type), col_wire.bytes,
                                         head.pos, head.values[2])
                 ELSE head, n)

\* the row at which a value occurs first
FirstRow(value) ==
    CHOOSE p \in 1..Len(col_values) :
        col_values[p] = value /\ \A q \in 1..(p - 1) : col_values[q] # value

\* C17: a value sequence encoded as LowCardinality(T) gives a dictionary of
\* exactly the distinct values in first-seen order and one index per row, and
\* decodes to the original sequence; with LowCardinality(Nullable(T)) the
\* null sentinel is at dictionary index 0, no mask bytes are written, and
\* the Nulls decode as Nulls at the same positions.
C17_LowCardinality ==
    (ColumnWritten /\ col_type.t = "LowCardinality" /\ WellTypedColumn) =>
        \E n \in {Len(col_values)} :
        \E sentinels \in {IF col_type.inner.t = "Nullable" THEN 1 ELSE 0} :
        \E lc \in {LcParse(ReadU64s(col_wire.bytes, 8, 2), n)} :
            /\ col_wire.ok /\ lc.ok
            /\ lc.rows = n /\ Len(lc.indices) = n
            /\ lc.end = Len(col_wire.bytes)
            /\ Len(lc.dict) = sentinels
                   + Cardinality({col_values[i] : i \in 1..n} \ {Value_Null})
            /\ \A i \in (sentinels + 1)..Len(lc.dict) :
                  /\ \E p \in 1..n : col_values[p] = lc.dict[i]
                  /\ \A j \in (i + 1)..Len(lc.dict) :
                        FirstRow(lc.dict[i]) < FirstRow(lc.dict[j])
            /\ \A p \in 1..n :
                  IF IsNull(col_values[p]) THEN lc.indices[p] = 0
                  ELSE /\ lc.indices[p] >= sentinels
                       /\ lc.dict[lc.indices[p] + 1] = col_values[p]
            /\ col_values = LcExample =>
                  /\ lc.dict = <<S_, S_abc, S_bcd, S_bcd2>>
                  /\ lc.indices = <<0, 1, 1, 2, 3, 1>>
            /\ col_pc = "done" =>
                  /\ col_res.ok /\ col_res.values = col_values
                  /\ NullPositions(col_res.values) = NullPositions(col_values)

\* the values of roundtrip_low_cardinality_string_null, Nulls among them and
\* an empty string that is not Null, were written with the sentinel at index
\* 0 and read back
C17_Witness ==
    /\ col_pc = "done"
    /\ col_type = Type_LowCardinality(Type_Nullable(Type_String))
    /\ col_values = LcNullExample
    /\ SubSeq(col_wire.bytes, Len(col_wire.bytes) - 6, Len(col_wire.bytes))
          = <<1, 0, 2, 2, 3, 4, 0>>
    /\ col_res.ok /\ col_res.values = col_values

\* C18: FixedString(n) writes exactly n bytes per element, zero-padded when
\* the input is shorter, and serializing an input longer than n is a
\* serialize error, never a silent truncation.
C18_FixedStringLongerIsError ==
    (ColumnWritten /\ col_type.t = "FixedString") =>
        IF \E i \in 1..Len(col_values) : Len(col_values[i].v) > col_type.n
        THEN ~col_wire.ok
        ELSE /\ col_wire.ok
             /\ Len(col_wire.bytes) = col_type.n * Len(col_values)
             /\ \A i \in 1..Len(col_values) :
                   SubSeq(col_wire.bytes, col_type.n * (i - 1) + 1, col_type.n * i)
                      = col_values[i].v \o [k \in 1..(col_type.n - Len(col_values[i].v)) |-> 0]

\* ---- type grammar ----

EnumWellFormed(type) ==
    \E half \in {IF type.t = "Enum8" THEN Pow2(7) ELSE Pow2(15)} :
        /\ \A i \in 1..Len(type.entries) :
              type.entries[i].value >= 0 - half /\ type.entries[i].value < half
        /\ \A i \in 1..Len(type.entries) : \A j \in (i + 1)..Len(type.entries) :
              /\ type.entries[i].name # type.entries[j].name
              /\ type.entries[i].value # type.entries[j].value

\* C20: parsing an enum type expression fails with a parse error when an
\* Enum8 value does not fit in signed 8-bit, an Enum16 value does not fit in
\* signed 16-bit, or a name or a value occurs twice in one enum; the values
\* -128 and 127 are accepted for Enum8.
C20_EnumValidation ==
    ty_pc = "done_text" =>
        /\ ty_type \in RawEnums =>
              /\ ty_res.ok <=> EnumWellFormed(ty_type)
              /\ ty_res.ok => ty_res.type = ty_type
              /\ ~ty_res.ok => ty_res.err = "TypeParseError"
        /\ ty_text = "Enum8('a' = -128, 'b' = 127)" =>
              /\ ty_res.ok
              /\ ty_res.type = Type_Enum8(<<Entry("a", -128), Entry("b", 127)>>)
        /\ ty_text \in {"Enum8('a' = 200)", "Enum16('a' = 100000)"} =>
              /\ ~ty_res.ok
              /\ ty_res.err = "TypeParseError"

\* an Enum8 with -128, which fits, and 128, which does not, was rejected
C20_Witness ==
    /\ ty_pc = "done_text"
    /\ ty_text = "Enum8('a' = -128, 'b' = 128)"
    /\ ~ty_res.ok
    /\ ty_res.err = "TypeParseError"

\* ---- error annotation ----

\* C21: with_column_name(name) turns DeserializeError(e) into
\* DeserializeErrorWithColumn(name, e) and UnexpectedType(t) into
\* UnexpectedTypeWithColumn(name, t) and returns every other variant as it
\* is, the annotated ones included: applied again it keeps the first name.
C21_WithColumnName ==
    IF err_names = <<>> THEN err_value = err_orig
    ELSE CASE err_orig.variant = "DeserializeError" ->
                 err_value = ColumnError("DeserializeErrorWithColumn", err_names[1],
                                         err_orig.payload)
           [] err_orig.variant = "UnexpectedType" ->
                 err_value = ColumnError("UnexpectedTypeWithColumn", err_names[1],
                                         err_orig.payload)
           [] OTHER -> err_value = err_orig

\* a DeserializeError was annotated with "col" and then with "id"
C21_Witness ==
    /\ err_orig = ColumnError("DeserializeError", "none", "t")
    /\ err_names = <<"col", "id">>
    /\ err_value = ColumnError("DeserializeErrorWithColumn", "col", "t")

\* ---- ClickhouseLock and the migration execute ----

\* the clients that hold a handle not yet unlocked or dropped
Holders == {c \in Clients : lk[c].handle = "held"}

\* C22: with a server that lets CREATE TABLE _lock_<name> succeed for one
\* caller while the table exists, and no reset() by a client that does not
\* hold the lock, try_lock and lock return a handle only after their own
\* CREATE TABLE succeeded, at most one unreleased handle exists at any time,
\* and two clients in execute never have statements in flight together.
C22_LockIsMutex ==
    /\ Cardinality(Holders) <= 1
    /\ \A c \in Holders : lk[c].reply = "ok" /\ lk_table
    /\ Cardinality({c \in Clients : lk[c].in_flight}) <= 1
    /\ \A c \in Clients : lk[c].pc \in {"run", "await"} => c \in Holders

\* a has a statement in flight while b, in execute too, found the table and
\* pauses
C22_Witness ==
    /\ lk["a"].mode = "execute" /\ lk["a"].in_flight /\ lk["a"].handle = "held"
    /\ lk["b"].mode = "execute" /\ lk["b"].pc = "sleep" /\ lk["b"].reply = "exists"

\* the release of a client's handle has been requested once, inline by
\* unlock() or by the detached task of Drop, or is still to be issued by it
ReleaseRequests(cl) ==
    CASE cl.handle = "held"    -> cl.drops = 0 /\ cl.task = "none"
      [] cl.handle = "taken"   -> cl.drops = 1 /\ cl.task = "none"
      [] cl.handle = "dropped" ->
            \/ cl.task = "none" /\ cl.drops = 1
            \/ cl.task = "spawned" /\ cl.drops = 0
            \/ cl.task = "ran" /\ cl.drops = 1
      [] OTHER -> cl.drops = 0 /\ cl.task = "none"

\* unlock() returned the error of its DROP TABLE
UnlockFailed(cl) ==
    cl.pc = "returned" /\ cl.handle = "dropped" /\ cl.task = "none" /\ cl.result = "Err"

Migrating == {c \in Clients : lk[c].mode \in {"execute", "cluster"}}

\* the statements sent so far are the first of those to send, in order, and
\* only the last of them may have failed
SentInOrder(cl, all) ==
    /\ Len(cl.sent) <= Len(all)
    /\ \A i \in 1..Len(cl.sent) : cl.sent[i].stmt = all[i]
    /\ \A i \in 1..(Len(cl.sent) - 1) : cl.sent[i].ok

\* a statement has failed
StatementFailed(cl) == cl.sent # <<>> /\ ~cl.sent[Len(cl.sent)].ok

\* C25: in the migration execute of Client and of ClusterMigration no
\* statement is sent before try_lock has returned a handle; the statements
\* are sent one at a time, in the order of the queries and in split order;
\* at the first failing statement no later one is sent, the error is
\* returned and the handle is dropped, so that the release comes from the
\* detached task of Drop only; Ok(queries.len()) is returned only when every
\* statement and the awaited unlock() succeeded.
C25_ExecuteOrder ==
    \A c \in Migrating :
        /\ SentInOrder(lk[c], Statements(lk[c].mode, lk_queries))
        /\ (lk[c].sent # <<>> \/ lk[c].in_flight) => lk[c].handle # "none"
        /\ lk[c].in_flight => (lk[c].handle = "held" /\ lk[c].pc = "await")
        /\ StatementFailed(lk[c]) =>
              /\ lk[c].pc = "returned" /\ lk[c].result = "Err"
              /\ ~lk[c].in_flight
              /\ lk[c].handle = "dropped"
              /\ lk[c].task \in {"spawned", "ran"}
              /\ lk[c].drops = (IF lk[c].task = "ran" THEN 1 ELSE 0)
        /\ lk[c].result = "Ok" =>
              /\ Len(lk[c].sent) = Len(Statements(lk[c].mode, lk_queries))
              /\ \A i \in 1..Len(lk[c].sent) : lk[c].sent[i].ok
              /\ lk[c].reply = "ok" /\ lk[c].drops = 1 /\ lk[c].task = "none"
              /\ lk[c].n = Len(lk_queries)

\* the second of three statements failed: the third was not sent and the
\* handle was dropped
C25_Witness ==
    /\ lk["a"].mode = "execute"
    /\ Len(lk_queries) = 3
    /\ lk["a"].sent = <<[stmt |-> "s1", ok |-> TRUE], [stmt |-> "s2", ok |-> FALSE]>>
    /\ lk["a"].result = "Err"
    /\ lk["a"].task = "spawned"

\* C26: while the lock is held by someone else, execute polls try_lock with
\* a pause of 250 ms and gives up with a Timeout at the first failed attempt
\* seen more than 300 s after its start, with no statement sent and no lock
\* held; an error of try_lock without 'already exists' is returned at once;
\* lock() retries every 100 ms and never gives up.
C26_LockTimeout ==
    \A c \in Clients :
        /\ lk[c].result = "Timeout" =>
              /\ c \in Migrating
              /\ lk[c].seen > LockTimeoutMs
              /\ lk[c].reply = "exists"
              /\ lk[c].sent = <<>> /\ ~lk[c].in_flight
              /\ lk[c].handle = "none" /\ lk[c].task = "none" /\ lk[c].drops = 0
        /\ (c \in Migrating /\ lk[c].pc = "sleep") => lk[c].seen <= LockTimeoutMs
        /\ (lk[c].pc = "try" /\ lk[c].retry_at >= 0) =>
              /\ lk[c].slept = (IF lk[c].mode = "lock" THEN LockRetryMs ELSE PollPauseMs)
              /\ lk[c].elapsed >= lk[c].retry_at
        /\ lk[c].pc \in {"sleep", "try"} => lk[c].reply \in {"none", "exists"}
        /\ (lk[c].pc = "returned" /\ lk[c].handle = "none" /\ lk[c].reply = "error") =>
              lk[c].result = "Err"
        /\ (lk[c].mode = "lock" /\ lk[c].pc = "returned" /\ lk[c].handle = "none") =>
              (lk[c].reply = "error" /\ lk[c].result = "Err")

\* b gave up 250 ms after an attempt at exactly 300 s that did not make it
\* give up, while a held the lock
C26_Witness ==
    /\ lk["b"].mode = "execute"
    /\ lk["b"].result = "Timeout"
    /\ lk["b"].retry_at = LockTimeoutMs
    /\ lk["b"].seen = LockTimeoutMs + PollPauseMs
    /\ lk["a"].handle = "held"

\* ---- DecompressionReader ----

\* a read_compressed_blob call of this reader has returned an error
FrameReadFailed == \E i \in 1..Len(blob_log) : ~blob_log[i].res.ok

FuturePresent == block_reading_future.pc # "none"

\* the reader as poll_read finds it
ReaderNow == Reader(inner, decompressed, position, block_reading_future, fr_cursor, blob_log)

\* every poll_read with a buffer of non-zero capacity returns an error and
\* leaves the reader and the inner stream's cursor as they are
EveryPollFails ==
    \A shape \in BufShapes, budget \in Budgets :
        shape[1] > 0 =>
            LET d == poll_read(ReaderNow, fr_wire, Lz4Byte, shape[1], shape[2], budget)
            IN d.polled.kind = "Err" /\ d.r = ReaderNow

\* C27: inner and block_reading_future are never both present, so the
\* assertion of run_decompression never fails, and position never exceeds the
\* length of the decompressed buffer; both are absent exactly when a frame
\* read has failed, and from then on every poll_read with a non-empty buffer
\* returns an error, the reader stays as it is and the inner stream is not
\* read again.
C27_ReaderStates ==
    /\ [](/\ ~(inner /\ FuturePresent)
          /\ poll_res.kind # "Panic"
          /\ position <= Len(decompressed)
          /\ (~inner /\ ~FuturePresent) <=> FrameReadFailed
          /\ FrameReadFailed => EveryPollFails)
    /\ [][FrameReadFailed =>
            /\ FrameReadFailed'
            /\ ~inner' /\ ~FuturePresent'
            /\ fr_cursor' = fr_cursor
            /\ blob_log' = blob_log
            /\ poll_res'.kind \in {"Ok", "Err"}
            /\ poll_res'.data = <<>>]_vars

\* a frame read failed and a later poll_read was refused as a read after the
\* end
C27_Witness ==
    /\ FrameReadFailed
    /\ ~inner /\ ~FuturePresent
    /\ poll_res.kind = "Err"
    /\ poll_res.err = IoError("UnexpectedEof", KErr("message", "read after EOF"))

\* the decompressed contents of the frames read so far, in the order read
RECURSIVE Stream(_)
Stream(log) ==
    IF log = <<>> THEN <<>>
    ELSE (IF Head(log).res.ok THEN Head(log).res.value ELSE <<>>) \o Stream(Tail(log))

\* the number of bytes of Stream(log) the reader has handed out
DeliveredUpTo(log, dec, pos) == Len(Stream(log)) - (Len(dec) - pos)

\* the frame reads, finished or under way, in the order they began
FrameReads ==
    blob_log \o (IF FuturePresent THEN <<block_reading_future>> ELSE <<>>)

\* every frame read begins where the one before it ended
ReadInWireOrder ==
    \A i \in 1..Len(FrameReads) :
        /\ FrameReads[i].start = (IF i = 1 THEN 0 ELSE FrameReads[i - 1].stop)
        /\ i <= Len(blob_log) => /\ FrameReads[i].pc = "ready"
                                 /\ FrameReads[i].stop >= FrameReads[i].start
        /\ i < Len(blob_log) => FrameReads[i].res.ok

\* what poll_read does in this state, for every buffer and every readiness of
\* the inner reader
PollOutcomes ==
    \A shape \in BufShapes, budget \in Budgets :
        LET d == poll_read(ReaderNow, fr_wire, Lz4Byte, shape[1], shape[2], budget)
            before == DeliveredUpTo(blob_log, decompressed, position)
            after  == DeliveredUpTo(d.r.log, d.r.decompressed, d.r.position)
        IN /\ shape[1] = 0 => d.r = ReaderNow /\ d.polled = Polled("Ok", <<>>, NoIoError)
           /\ d.polled.kind = "Ok" =>
                 /\ d.polled.data = SubSeq(Stream(d.r.log), before + 1, after)
                 /\ Len(d.polled.data) <= shape[2]
                 /\ shape[2] > 0 => Len(d.polled.data) >= 1
           /\ d.polled.kind # "Ok" => d.polled.data = <<>> /\ after = before
           /\ d.polled.kind = "Pending" =>
                 /\ d.r.block_reading_future.pc \notin {"none", "ready"}
                 /\ ~d.r.inner
           /\ d.polled.kind \in {"Ok", "Pending", "Err"}

\* C28: the bytes successive successful poll_read calls deliver are the
\* concatenation, in wire order, of the decompressed contents of the frames
\* read: each frame is read once, a Pending poll delivers nothing and the next
\* poll resumes the same frame read, a zero-capacity poll changes nothing, a
\* successful poll with room in the buffer delivers at least one byte (empty
\* frames are skipped), and the end of the inner stream is an error.
C28_DeliveredStream ==
    /\ [](/\ ReadInWireOrder
          /\ PollOutcomes
          /\ inner => decompressed = (IF blob_log = <<>> THEN <<>>
                                      ELSE blob_log[Len(blob_log)].res.value)
          /\ ~inner => position = Len(decompressed)
          /\ fr_cursor = (IF FrameReads = <<>> THEN 0
                          ELSE IF FuturePresent THEN fr_cursor
                          ELSE FrameReads[Len(FrameReads)].stop)
          /\ fr_cursor >= (IF blob_log = <<>> THEN 0 ELSE blob_log[Len(blob_log)].stop))
    /\ [][/\ LET before == DeliveredUpTo(blob_log, decompressed, position)
                 after  == DeliveredUpTo(blob_log', decompressed', position')
             IN /\ poll_res'.kind = "Ok" =>
                      poll_res'.data = SubSeq(Stream(blob_log'), before + 1, after)
                /\ poll_res'.kind # "Ok" => poll_res'.data = <<>> /\ after = before
          /\ SubSeq(blob_log', 1, Len(blob_log)) = blob_log
          /\ FuturePresent =>
                \/ FuturePresent' /\ blob_log' = blob_log
                                  /\ block_reading_future'.start = block_reading_future.start
                                  /\ poll_res'.kind \in {"Pending", "Ok"}
                \/ /\ Len(blob_log') > Len(blob_log)
                   /\ blob_log'[Len(blob_log) + 1].start = block_reading_future.start
          /\ (poll_res'.kind = "Err" /\ fr_cursor' = Len(fr_wire) /\ Len(blob_log') > Len(blob_log))
                => ~blob_log'[Len(blob_log')].res.ok]_vars

\* a frame of no bytes was skipped: two frames were read and the byte of the
\* second delivered, the first having decompressed to nothing
C28_Witness ==
    /\ Len(blob_log) = 2
    /\ blob_log[1].res.ok /\ blob_log[1].res.value = <<>>
    /\ blob_log[2].res.ok /\ blob_log[2].res.value = <<65>>
    /\ poll_res = Polled("Ok", <<65>>, NoIoError)

\* ---- LZ4 blocks ----

C24_WitnessEmpty ==
    /\ blk_kind = "invalid" /\ blk_pc = "done"
    /\ blk_data = <<>> /\ blk_size = U32OfInt(100)
    /\ blk_res.err = KErr("CompressionError", "malformed compressed block")

\* a frame whose header declares the decompressed size usize for the body
FrameDeclaring(body, usize) ==
    Enveloped(<<Lz4Byte>> \o LEOfInt(HeaderLen + Len(body)) \o U32ToLE(usize) \o body)

\* read_compressed_blob on a frame that declares blk_size for blk_data hands
\* that size to decompress_block as it is
ForwardedAsDeclared ==
    LET p == PollFuture(NewFuture(0), FrameDeclaring(blk_data, blk_size), 0, Lz4Byte,
                        SegmentsPerBlob)
    IN /\ p.fut.pc = "ready"
       /\ p.fut.usize = blk_size
       /\ p.fut.res = decompress_block(blk_data, blk_size)

\* C29: for every u32 decompressed_size and every value the decoder returns,
\* decompress_block returns a CompressionError or a vector of at most
\* decompressed_size + 1 bytes: the capacity it passes as i32 is
\* decompressed_size + 1 below 2^31 - 1 and not positive from there on, so it
\* never exceeds the capacity of the buffer; read_compressed_blob forwards
\* the declared size without an upper bound.
C29_OutputWithinCapacity ==
    blk_pc = "done" =>
        /\ IF U32Small(blk_size) /\ U32Val(blk_size) < I32Max
           THEN blk_cap - 1 = U32Val(blk_size)
           ELSE blk_cap <= 0
        /\ ~blk_res.ok => blk_res.err.variant = "CompressionError"
        /\ blk_res.ok =>
              /\ blk_res.len = blk_ret.len
              /\ blk_res.len >= 0
              /\ U32Small(blk_size) => blk_res.len - 1 <= U32Val(blk_size)
        /\ ForwardedAsDeclared

\* a declared size of 2^31 - 1: the capacity passed was -2^31, and a decoder
\* returning 2 got its two bytes accepted
C29_Witness ==
    /\ blk_kind = "any_return" /\ blk_pc = "done"
    /\ blk_size = U32OfLE(<<255, 255, 255, 127>>)
    /\ blk_cap = -I32Max - 1
    /\ blk_ret.len = 2
    /\ blk_res.ok /\ blk_res.len = 2

\* a declared size of 3 and a decoder returning 5: refused
C29_WitnessExceeded ==
    /\ blk_kind = "any_return" /\ blk_pc = "done"
    /\ blk_size = U32OfInt(3)
    /\ blk_cap = 4
    /\ blk_ret.len = 5
    /\ blk_res.err = KErr("CompressionError", "exceeded buffer capacity")

\* ---- BigDecimal conversions ----

\* the same number
NumEq(a, b) == a.int_val * Pow10(b.scale) = b.int_val * Pow10(a.scale)

\* the integers an integer type holds, for those of 8 and 16 bits
TypeRange(kind) ==
    CASE kind = "Int8"   -> [min |-> -Pow2(7), max |-> Pow2(7) - 1]
      [] kind = "UInt8"  -> [min |-> 0, max |-> Pow2(8) - 1]
      [] kind = "Int16"  -> [min |-> -Pow2(15), max |-> Pow2(15) - 1]
      [] kind = "UInt16" -> [min |-> 0, max |-> Pow2(16) - 1]
      [] kind \in {"UInt32", "UInt64", "UInt128"} -> [min |-> 0, max |-> I32Max]
      [] OTHER -> [min |-> -I32Max, max |-> I32Max]

\* the integer part of x is outside the type's range
OutsideRange(x, kind) ==
    IntegerPart(x) < TypeRange(kind).min \/ IntegerPart(x) > TypeRange(kind).max

\* to_sql then from_sql gives back the number
DecimalRoundTrips ==
    (bd_pc = "done" /\ bd_hint.kind \in DecimalKinds
        /\ fractional_digit_count(bd_x) <= bd_hint.precision)
      => /\ bd_value.ok
         /\ bd_back.ok
         /\ NumEq(bd_back.value, bd_x)

\* an integer type that does not hold x makes to_sql fail
IntegerHintOutOfRangeIsError ==
    (bd_pc # "to_sql" /\ bd_hint.kind \in IntKinds /\ OutsideRange(bd_x, bd_hint.kind))
      => ~bd_value.ok /\ bd_value.err.variant = "SerializeError"

\* C30 as stated: for N in {32, 64, 128}, every scale S and every BigDecimal x
\* of at most S fractional digits whose value scaled by 10^S fits N bits,
\* from_sql of to_sql(x, DecimalN(S)) is numerically equal to x; and to_sql with
\* an integer type hint returns a SerializeError when x is outside the range of
\* that integer type.
C30_DecimalRoundTrip == DecimalRoundTrips /\ IntegerHintOutOfRangeIsError

\* 1234 written as Decimal32(2) and read back (the values of
\* test_to_sql_decimal32_success and test_from_sql_decimals)
C30_Decimal32Of1234 ==
    /\ bd_pc = "done"
    /\ bd_x = BigDec(1234, 0) /\ bd_hint = Hint("Decimal32", 2)
    /\ bd_value = Converted(TRUE, SqlValue("Decimal32", 2, 1234), NoErr)
    /\ bd_back = Restored(TRUE, BigDec(1234, 2), NoErr)

\* ---- compression envelope ----

\* the read_compressed_blob calls: those that returned and the one under way
Blobs == {blob_log[i] : i \in 1..Len(blob_log)}
           \cup (IF block_reading_future.pc = "none" THEN {} ELSE {block_reading_future})

ChecksumMismatch == KErr("ProtocolError", "corrupt checksum")

\* the first frame's read has returned, and a bit of that frame was inverted
FlippedFrameRead == corrupt.kind = "flip" /\ Len(blob_log) >= 1

\* C6 as stated: corrupting any bit of the checksum, the algorithm byte, the
\* size fields or the body makes read_compressed_blob reject the frame with a
\* checksum mismatch error.
C6_AnyFlipIsChecksumMismatch ==
    FlippedFrameRead => blob_log[1].res.err = ChecksumMismatch

\* C6 as amended: a frame with one bit inverted is always rejected; with a
\* checksum mismatch when the bit is in the checksum, the decompressed size or
\* the body; with the algorithm-identifier ProtocolError when it is in the
\* algorithm byte; and when it is in the compressed size with the size-range
\* ProtocolError, an I/O error of the short read, or a checksum mismatch.
C6_FlipIsRejected ==
    FlippedFrameRead =>
        LET res == blob_log[1].res
        IN /\ ~res.ok
           /\ corrupt.field \in {"checksum", "usize", "body"} => res.err = ChecksumMismatch
           /\ corrupt.field = "algo" =>
                 res.err = KErr("ProtocolError", "unexpected compression algorithm identifier")
           /\ corrupt.field = "csize" =>
                 \/ res.err = ChecksumMismatch
                 \/ res.err = KErr("ProtocolError", "compressed payload too large")
                 \/ res.err = KErr("ProtocolError", "compressed payload too small")
                 \/ res.err = FromIo(IoError("UnexpectedEof", NoErr))

\* a bit of the body was inverted and the frame's read ended with the
\* checksum mismatch
C6_Witness ==
    /\ FlippedFrameRead
    /\ corrupt.field = "body"
    /\ blob_log[1].res.err = ChecksumMismatch

\* C7 as stated: the checksum error of read_compressed_blob reaches the
\* consumer of the DecompressionReader still as a ProtocolError.
C7_ChecksumErrorIsProtocolError ==
    (read_err # NoErr /\ Len(blob_log) >= 1
        /\ blob_log[Len(blob_log)].res.err = ChecksumMismatch
        /\ poll_res.err.src = ChecksumMismatch)
      => read_err.variant = "ProtocolError"

\* the compressed size has been read and tested
CsizeRead(f) ==
    \/ f.last \in {"usize", "body"}
    \/ f.last = "csize" /\ (f.pc = "usize" \/ f.res.err.variant = "ProtocolError")

\* csize is outside [9, 2^30]
CsizeOutOfRange(c) == ~U32Small(c) \/ U32Val(c) > 1073741824 \/ U32Val(c) < 9

SizeErrors == {KErr("ProtocolError", "compressed payload too large"),
               KErr("ProtocolError", "compressed payload too small")}

\* C8: read_compressed_blob rejects every csize outside [9, 1 GiB] with a
\* ProtocolError before it allocates the body buffer and before it reads a
\* byte beyond the size field (21 bytes into the frame); a csize inside the
\* range passes the test, and only then is the buffer allocated.
C8_CsizeRange ==
    \A f \in Blobs :
        /\ f.alloc => CsizeRead(f) /\ ~CsizeOutOfRange(f.csize)
        /\ CsizeRead(f) =>
              IF CsizeOutOfRange(f.csize)
              THEN /\ f.pc = "ready"
                   /\ f.res.err \in SizeErrors
                   /\ ~f.alloc
                   /\ f.stop = f.start + 21
              ELSE /\ f.res.err \notin SizeErrors
                   /\ f.pc = "usize" \/ f.last \in {"usize", "body"}

\* a frame announcing 2^30 + 1 bytes was rejected, nothing allocated
C8_Witness ==
    /\ corrupt.kind = "csize" /\ corrupt.bytes = <<1, 0, 0, 64>>
    /\ Len(blob_log) = 1
    /\ blob_log[1].res.err = KErr("ProtocolError", "compressed payload too large")
    /\ ~blob_log[1].alloc
    /\ fr_cursor = 21

\* C9 as stated: decompress_block returns Ok only with exactly the declared
\* number of bytes.
C9_OkOnlyWithDeclaredLength ==
    \A i \in 1..Len(blob_log) :
        blob_log[i].res.ok => Len(blob_log[i].res.value) = U32Val(blob_log[i].usize)

=============================================================================
